---- MODULE Spec2Model ----
(***************************************************************************)
(* RoleBaker (src/src/index.ts): bakeAuthorization closes over a role      *)
(* mode, a permission table and an action description table and returns    *)
(* hasPermission and generatePermissionDocs.                               *)
(*                                                                         *)
(* JavaScript objects are modelled as sequences of [key, value] entries in *)
(* own-key insertion order (the order Object.keys reports for the          *)
(* non-numeric keys used here).  JavaScript values that an operation can   *)
(* return are modelled as the strings "true", "false", "undefined",        *)
(* "null" and "1" (a truthy value that is not a boolean), so that a        *)
(* result that is not a boolean can be told from one that is.  Property    *)
(* reads see own keys only; names inherited from Object.prototype are not  *)
(* used as roles, resources or actions.                                    *)
(***************************************************************************)
EXTENDS Naturals, Sequences, FiniteSets, TLC

VARIABLES userRoleMode, permissionsConfig, actionDocsConfig,
          op, authUser, resource, action, resourceData, outcome, documentation,
          baked, previous, callers

\* baked: the three values bakeAuthorization was called with;
\* previous: what the latest completed generatePermissionDocs call produced;
\* callers: the locals of each concurrent caller (used by SpecConcurrent).
vars == <<userRoleMode, permissionsConfig, actionDocsConfig,
          op, authUser, resource, action, resourceData, outcome, documentation,
          baked, previous, callers>>

config == <<userRoleMode, permissionsConfig, actionDocsConfig>>

(***************************************************************************)
(* Bounds and input universes                                              *)
(***************************************************************************)
\* Longest roles array of a multi-role principal.
MaxHeld == 2

RoleModeBase == {"multiRole", "singleRole"}

\* "" is a string, hence a legal role name and a legal key of the table.
RoleNames == {"admin", "user", ""}
ResourceNames == {"todos", "betaResource"}
ActionNames == {"read", "delete"}

(***************************************************************************)
(* JavaScript objects as ordered key/value sequences                       *)
(***************************************************************************)
Entry(k, v) == [key |-> k, value |-> v]

\* Object.keys(obj)
Keys(obj) == [i \in 1..Len(obj) |-> obj[i].key]

\* obj[k] !== undefined, for own keys
HasKey(obj, k) == \E i \in 1..Len(obj) : obj[i].key = k

\* obj[k], for a key the object has
Get(obj, k) == obj[CHOOSE i \in 1..Len(obj) : obj[i].key = k].value

\* The property names that are array indices (canonical numeric strings), in
\* ascending numeric order.
ArrayIndexKeys == <<"1", "2">>

IsArrayIndex(k) == \E i \in 1..Len(ArrayIndexKeys) : ArrayIndexKeys[i] = k

\* The own properties of an object the code has filled in the order of the
\* sequence obj, as Object.keys and for-in enumerate them: array indices
\* first, in ascending order, then the other names in the order they were
\* added.
OwnPropertyOrder(obj) ==
    LET indices == SelectSeq(ArrayIndexKeys, LAMBDA k : HasKey(obj, k))
    IN  [m \in 1..Len(indices) |-> Entry(indices[m], Get(obj, indices[m]))]
        \o SelectSeq(obj, LAMBDA e : ~IsArrayIndex(e.key))

(***************************************************************************)
(* PermissionValidation: boolean | { checkFunction, description }          *)
(***************************************************************************)
NoFunction == "<no checkFunction>"
NoDescription == "<no description>"

Bool(b) == [type |-> "boolean", value |-> b,
            checkFunction |-> NoFunction, description |-> NoDescription]
Cond(f, d) == [type |-> "object", value |-> FALSE,
               checkFunction |-> f, description |-> d]

\* The caller-supplied predicates the tables below use.
CheckFunctionNames ==
    {"isAuthor", "throws", "returnsUndefined", "returnsNull", "returnsOne", "soleRole"}

AuthorOnly == "Only the author can delete their own to-dos"

(***************************************************************************)
(* Principals and resource data                                            *)
(***************************************************************************)
NullUser == [isNull |-> TRUE, hasRole |-> FALSE, role |-> "",
             hasRoles |-> FALSE, roles |-> <<>>, userId |-> ""]
SingleRoleAuthUser(r, id) == [isNull |-> FALSE, hasRole |-> TRUE, role |-> r,
                              hasRoles |-> FALSE, roles |-> <<>>, userId |-> id]
MultipleRolesAuthUser(rs, id) == [isNull |-> FALSE, hasRole |-> FALSE, role |-> "",
                                  hasRoles |-> TRUE, roles |-> rs, userId |-> id]
\* an object that carries both a role and a roles field
BothShapesUser(r, rs, id) == [isNull |-> FALSE, hasRole |-> TRUE, role |-> r,
                              hasRoles |-> TRUE, roles |-> rs, userId |-> id]
\* an object that carries neither a role nor a roles field
BareUser(id) == [isNull |-> FALSE, hasRole |-> FALSE, role |-> "",
                 hasRoles |-> FALSE, roles |-> <<>>, userId |-> id]

NoData == [defined |-> FALSE, authorId |-> ""]
ToDo(author) == [defined |-> TRUE, authorId |-> author]

RoleSeqs == UNION {[1..n -> RoleNames] : n \in 0..MaxHeld}

Users == {NullUser, BareUser("u1"),
          BothShapesUser("admin", <<"user">>, "u1"),
          BothShapesUser("user", <<"admin">>, "u1")}
         \cup {SingleRoleAuthUser(r, "u1") : r \in RoleNames}
         \cup {MultipleRolesAuthUser(rs, "u1") : rs \in RoleSeqs}

Datas == {NoData, ToDo("u1"), ToDo("u2")}

(***************************************************************************)
(* Results of a call                                                       *)
(***************************************************************************)
\* invoked: the predicate invocations made, in order;
\* inspected: the roles whose table entry was looked up, in order.
Return(v, inv, insp) == [kind |-> "return", value |-> v, invoked |-> inv, inspected |-> insp]
Throw(e, inv, insp) == [kind |-> "throw", value |-> e, invoked |-> inv, inspected |-> insp]
NoOutcome == [kind |-> "none", value |-> "", invoked |-> <<>>, inspected |-> <<>>]

Invocation(f, u, d) == [checkFunction |-> f, user |-> u, data |-> d]

JsBool(b) == IF b THEN "true" ELSE "false"
\* ToBoolean(v)
Truthy(v) == v \in {"true", "1"}
\* v == null (null or undefined)
Nullish(v) == v \in {"undefined", "null"}

(***************************************************************************)
(* Caller-supplied predicates (checkFunction)                              *)
(***************************************************************************)
Value(v) == [kind |-> "return", value |-> v]
Raise(e) == [kind |-> "throw", value |-> e]

\* What the predicate named f does when called with (u, d).
\*   isAuthor          (authUser, todo) => todo?.authorId === authUser.userId
\*   throws            () => { throw new Error("boom") }
\*   returnsUndefined  () => undefined      returnsNull  () => null
\*   returnsOne        () => 1
\*   soleRole          (authUser) => authUser.roles?.length === 1
CheckFunction(f, u, d) ==
    CASE f = "isAuthor" -> Value(JsBool(d.defined /\ d.authorId = u.userId))
      [] f = "throws" -> Raise("boom")
      [] f = "returnsUndefined" -> Value("undefined")
      [] f = "returnsNull" -> Value("null")
      [] f = "returnsOne" -> Value("1")
      [] f = "soleRole" -> Value(JsBool(u.hasRoles /\ Len(u.roles) = 1))

(***************************************************************************)
(* hasPermission                                                           *)
(***************************************************************************)
\* Faulty variant: the branch is chosen by the shape of the principal.
isMultiRoleUser_ByShape(user, mode) == user.hasRoles

isMultiRoleUser(user, mode) == mode = "multiRole"

\* Faulty variant: a missing entry defaults to true ("?? true").
PermissionValidation_DefaultAllow(table, role, res, act) ==
    IF ~HasKey(table, role) THEN Bool(TRUE)
    ELSE IF ~HasKey(Get(table, role), res) THEN Bool(TRUE)
    ELSE IF ~HasKey(Get(Get(table, role), res), act) THEN Bool(TRUE)
    ELSE Get(Get(Get(table, role), res), act)

\* Faulty variant: a role whose own entry is missing or the boolean false
\* inherits the entry of the first role of the table that has another one.
PermissionValidation_Inherits(table, role, res, act) ==
    LET own == IF ~HasKey(table, role) THEN Bool(FALSE)
               ELSE IF ~HasKey(Get(table, role), res) THEN Bool(FALSE)
               ELSE IF ~HasKey(Get(Get(table, role), res), act) THEN Bool(FALSE)
               ELSE Get(Get(Get(table, role), res), act)
        others == SelectSeq(table, LAMBDA e :
                     /\ HasKey(e.value, res)
                     /\ HasKey(Get(e.value, res), act)
                     /\ Get(Get(e.value, res), act) # Bool(FALSE))
    IN  IF own = Bool(FALSE) /\ others # <<>>
        THEN Get(Get(others[1].value, res), act)
        ELSE own

\* permissionsConfig[role]?.[resource]?.[action] ?? false
PermissionValidation(table, role, res, act) ==
    IF ~HasKey(table, role) THEN Bool(FALSE)
    ELSE IF ~HasKey(Get(table, role), res) THEN Bool(FALSE)
    ELSE IF ~HasKey(Get(Get(table, role), res), act) THEN Bool(FALSE)
    ELSE Get(Get(Get(table, role), res), act)

\* Faulty variant: the predicate is called without the resource data.
Evaluate_DropsData(pv, u, d) ==
    IF pv.type = "boolean" THEN Return(JsBool(pv.value), <<>>, <<>>)
    ELSE IF pv.checkFunction = NoFunction THEN Return("false", <<>>, <<>>)
    ELSE LET r == CheckFunction(pv.checkFunction, u, NoData)
             inv == <<Invocation(pv.checkFunction, u, NoData)>>
         IN  IF r.kind = "throw" THEN Throw(r.value, inv, <<>>)
             ELSE IF Nullish(r.value) THEN Return("false", inv, <<>>)
             ELSE Return(r.value, inv, <<>>)

\* Faulty variant: a failure of the predicate is caught and turned into deny.
Evaluate_Catches(pv, u, d) ==
    IF pv.type = "boolean" THEN Return(JsBool(pv.value), <<>>, <<>>)
    ELSE IF pv.checkFunction = NoFunction THEN Return("false", <<>>, <<>>)
    ELSE LET r == CheckFunction(pv.checkFunction, u, d)
             inv == <<Invocation(pv.checkFunction, u, d)>>
         IN  IF r.kind = "throw" THEN Return("false", inv, <<>>)
             ELSE IF Nullish(r.value) THEN Return("false", inv, <<>>)
             ELSE Return(r.value, inv, <<>>)

\* Faulty variant: the "?? false" is left out.
Evaluate_NoCoalesce(pv, u, d) ==
    IF pv.type = "boolean" THEN Return(JsBool(pv.value), <<>>, <<>>)
    ELSE IF pv.checkFunction = NoFunction THEN Return("undefined", <<>>, <<>>)
    ELSE LET r == CheckFunction(pv.checkFunction, u, d)
             inv == <<Invocation(pv.checkFunction, u, d)>>
         IN  IF r.kind = "throw" THEN Throw(r.value, inv, <<>>)
             ELSE Return(r.value, inv, <<>>)

\* typeof PermissionValidation === "boolean"
\*   ? PermissionValidation
\*   : PermissionValidation.checkFunction?.(authUser, resourceData) ?? false
\* The result carries the invocations made (none or one).
Evaluate(pv, u, d) ==
    IF pv.type = "boolean" THEN Return(JsBool(pv.value), <<>>, <<>>)
    ELSE IF pv.checkFunction = NoFunction THEN Return("false", <<>>, <<>>)
    ELSE LET r == CheckFunction(pv.checkFunction, u, d)
             inv == <<Invocation(pv.checkFunction, u, d)>>
         IN  IF r.kind = "throw" THEN Throw(r.value, inv, <<>>)
             ELSE IF Nullish(r.value) THEN Return("false", inv, <<>>)
             ELSE Return(r.value, inv, <<>>)

\* Faulty variant: every held role must grant (authUser.roles.every(...)).
RECURSIVE every(_, _, _, _, _, _, _, _)
every(table, roles, i, u, res, act, d, log) ==
    IF i > Len(roles) THEN Return("true", log.invoked, log.inspected)
    ELSE LET e == Evaluate(PermissionValidation(table, roles[i], res, act), u, d)
             inv == log.invoked \o e.invoked
             insp == Append(log.inspected, roles[i])
         IN  IF e.kind = "throw" THEN Throw(e.value, inv, insp)
             ELSE IF ~Truthy(e.value) THEN Return("false", inv, insp)
             ELSE every(table, roles, i + 1, u, res, act, d,
                        [invoked |-> inv, inspected |-> insp])

\* Faulty variant: only the first role of the sequence is consulted
\* (authUser.roles[0]).
RECURSIVE some_FirstOnly(_, _, _, _, _, _, _, _)
some_FirstOnly(table, roles, i, u, res, act, d, log) ==
    IF i > Len(roles) THEN Return("false", log.invoked, log.inspected)
    ELSE LET e == Evaluate(PermissionValidation(table, roles[i], res, act), u, d)
             inv == log.invoked \o e.invoked
             insp == Append(log.inspected, roles[i])
         IN  IF e.kind = "throw" THEN Throw(e.value, inv, insp)
             ELSE IF Truthy(e.value) THEN Return("true", inv, insp)
             ELSE Return("false", inv, insp)

\* Faulty variant: every role of the sequence is evaluated before the
\* results are combined (authUser.roles.map(...).includes(true)).
RECURSIVE some_NoShortCircuit(_, _, _, _, _, _, _, _)
some_NoShortCircuit(table, roles, i, u, res, act, d, log) ==
    IF i > Len(roles)
    THEN Return(JsBool(\E k \in 1..Len(roles) :
                          Truthy(Evaluate(PermissionValidation(table, roles[k], res, act),
                                          u, d).value)),
                log.invoked, log.inspected)
    ELSE LET e == Evaluate(PermissionValidation(table, roles[i], res, act), u, d)
             inv == log.invoked \o e.invoked
             insp == Append(log.inspected, roles[i])
         IN  IF e.kind = "throw" THEN Throw(e.value, inv, insp)
             ELSE some_NoShortCircuit(table, roles, i + 1, u, res, act, d,
                                      [invoked |-> inv, inspected |-> insp])

\* authUser.roles.some((role) => ...), from the i-th role on; log holds the
\* invocations and role lookups made for the roles before it.
RECURSIVE some(_, _, _, _, _, _, _, _)
some(table, roles, i, u, res, act, d, log) ==
    IF i > Len(roles) THEN Return("false", log.invoked, log.inspected)
    ELSE LET e == Evaluate(PermissionValidation(table, roles[i], res, act), u, d)
             inv == log.invoked \o e.invoked
             insp == Append(log.inspected, roles[i])
         IN  IF e.kind = "throw" THEN Throw(e.value, inv, insp)
             ELSE IF Truthy(e.value) THEN Return("true", inv, insp)
             ELSE some(table, roles, i + 1, u, res, act, d,
                       [invoked |-> inv, inspected |-> insp])

\* Faulty variant: a held role that is not a key of the table denies the call.
MultiRoleBranch_UnknownRoleDenies(table, u, res, act, d) ==
    IF ~u.hasRoles \/ Len(u.roles) = 0 THEN Return("false", <<>>, <<>>)
    ELSE IF \E i \in 1..Len(u.roles) : ~HasKey(table, u.roles[i])
    THEN Return("false", <<>>, <<>>)
    ELSE some(table, u.roles, 1, u, res, act, d,
              [invoked |-> <<>>, inspected |-> <<>>])

\* the multi-role branch: the roles guard and authUser.roles.some(...)
MultiRoleBranch(table, u, res, act, d) ==
    IF ~u.hasRoles \/ Len(u.roles) = 0 THEN Return("false", <<>>, <<>>)
    ELSE some(table, u.roles, 1, u, res, act, d,
              [invoked |-> <<>>, inspected |-> <<>>])

\* Faulty variant: only an undefined role is rejected ("role === undefined").
SingleRoleBranch_UndefinedOnly(table, u, res, act, d) ==
    IF ~u.hasRole THEN Return("false", <<>>, <<>>)
    ELSE LET e == Evaluate(PermissionValidation(table, u.role, res, act), u, d)
         IN  [e EXCEPT !.inspected = <<u.role>>]

\* the single-role branch: the role guard and the rule of authUser.role
SingleRoleBranch(table, u, res, act, d) ==
    IF ~u.hasRole \/ u.role = "" THEN Return("false", <<>>, <<>>)
    ELSE LET e == Evaluate(PermissionValidation(table, u.role, res, act), u, d)
         IN  [e EXCEPT !.inspected = <<u.role>>]

\* Faulty variant: no "if (!authUser) return false"; reading a property of
\* null is a TypeError.
HasPermissionIn_NoNullGuard(mode, table, u, res, act, d) ==
    IF u.isNull THEN Throw("TypeError", <<>>, <<>>)
    ELSE IF isMultiRoleUser(u, mode) THEN MultiRoleBranch(table, u, res, act, d)
    ELSE SingleRoleBranch(table, u, res, act, d)

\* hasPermission of the engine baked with (mode, table)
HasPermissionIn(mode, table, u, res, act, d) ==
    IF u.isNull THEN Return("false", <<>>, <<>>)
    ELSE IF isMultiRoleUser(u, mode) THEN MultiRoleBranch(table, u, res, act, d)
    ELSE SingleRoleBranch(table, u, res, act, d)

\* Faulty variant: hasPermission reads the description table and fails when
\* it is absent.
HasPermissionBaked_NeedsDocs(mode, table, docs, u, res, act, d) ==
    IF ~docs.supplied THEN Throw("TypeError", <<>>, <<>>)
    ELSE HasPermissionIn(mode, table, u, res, act, d)

\* the hasPermission that bakeAuthorization({ userRoleMode: mode,
\* permissionsConfig: table, actionDocsConfig: docs }) returns: a closure
\* with the three values in scope, of which it reads two
HasPermissionBaked(mode, table, docs, u, res, act, d) ==
    HasPermissionIn(mode, table, u, res, act, d)

hasPermission(u, res, act, d) ==
    HasPermissionBaked(userRoleMode, permissionsConfig, actionDocsConfig, u, res, act, d)

(***************************************************************************)
(* Configurations the engine is baked with                                 *)
(***************************************************************************)
\* One role's sub-configuration (resource -> action -> rule), as written by
\* the caller.  The first five are the roles of the repository's tests.
AdminConfig ==
    <<Entry("todos", <<Entry("read", Bool(TRUE)), Entry("delete", Bool(TRUE))>>)>>
ModeratorConfig ==
    <<Entry("todos", <<Entry("read", Bool(TRUE)), Entry("delete", Bool(FALSE))>>)>>
UserConfig ==
    <<Entry("todos", <<Entry("read", Bool(TRUE)),
                       Entry("delete", Cond("isAuthor", AuthorOnly))>>)>>
UserNoDescriptionConfig ==
    <<Entry("todos", <<Entry("delete", Cond("isAuthor", NoDescription)),
                       Entry("read", Bool(FALSE))>>)>>
BetaTesterConfig ==
    <<Entry("betaResource", <<Entry("read", Bool(TRUE))>>)>>
NoResourcesConfig == <<>>
NoActionsConfig == <<Entry("todos", <<>>)>>
ThrowingConfig ==
    <<Entry("todos", <<Entry("delete", Cond("throws", "Never decided"))>>)>>
NothingConfig ==
    <<Entry("betaResource", <<Entry("delete", Cond("returnsUndefined", "Nothing")),
                              Entry("read", Cond(NoFunction, "No predicate"))>>),
      Entry("todos", <<Entry("delete", Cond("returnsNull", "Null"))>>)>>
OddConfig ==
    <<Entry("todos", <<Entry("delete", Cond("returnsOne", "One")),
                       Entry("read", Cond("soleRole", "Only role held"))>>)>>

RoleConfigs ==
    {AdminConfig, ModeratorConfig, UserConfig, UserNoDescriptionConfig,
     BetaTesterConfig, NoResourcesConfig, NoActionsConfig, ThrowingConfig,
     NothingConfig, OddConfig}

\* The top-level keys of the table, in the order the caller wrote them.
TableRoles ==
    {<<>>, <<"admin">>, <<"">>, <<"admin", "user">>, <<"user", "admin">>, <<"admin", "">>}

Tables ==
    UNION {{[i \in 1..Len(rs) |-> Entry(rs[i], c[i])] : c \in [1..Len(rs) -> RoleConfigs]}
           : rs \in TableRoles}

\* actionDocsConfig: absent, or { actionDescriptions: resource -> action -> { description } }
Description(d) == [description |-> d]
NoDocs == [supplied |-> FALSE, actionDescriptions |-> <<>>]
Docs(ad) == [supplied |-> TRUE, actionDescriptions |-> ad]

DOC_CONFIG ==
    Docs(<<Entry("todos", <<Entry("read", Description("Read to-dos")),
                            Entry("delete", Description("Delete to-dos"))>>),
           Entry("betaResource", <<Entry("read", Description("View beta resource")),
                                   Entry("delete", Description("Drop beta resource"))>>)>>)

\* a description table that does not describe betaResource
TODOS_DOC_CONFIG ==
    Docs(<<Entry("todos", <<Entry("read", Description("Read to-dos")),
                            Entry("delete", Description("Delete to-dos"))>>)>>)

DocsConfigs == {NoDocs, DOC_CONFIG, TODOS_DOC_CONFIG}

(***************************************************************************)
(* generatePermissionDocs                                                  *)
(***************************************************************************)
\* Faulty variant: the action names are collected in an array, which keeps
\* a name it already holds.
RECURSIVE AddAll_NoDedup(_, _, _)
AddAll_NoDedup(actionSet, names, i) ==
    IF i > Len(names) THEN actionSet
    ELSE AddAll_NoDedup(Append(actionSet, names[i]), names, i + 1)

\* Faulty variant: a new action name is put in front of the names already
\* collected.
RECURSIVE AddAll_Prepends(_, _, _)
AddAll_Prepends(actionSet, names, i) ==
    IF i > Len(names) THEN actionSet
    ELSE AddAll_Prepends(IF \E j \in 1..Len(actionSet) : actionSet[j] = names[i]
                         THEN actionSet ELSE <<names[i]>> \o actionSet,
                         names, i + 1)

\* actionSet.add(an) for every an of names, in order (a Set keeps insertion
\* order and ignores a value it already holds)
RECURSIVE AddAll(_, _, _)
AddAll(actionSet, names, i) ==
    IF i > Len(names) THEN actionSet
    ELSE AddAll(IF \E j \in 1..Len(actionSet) : actionSet[j] = names[i]
                THEN actionSet ELSE Append(actionSet, names[i]),
                names, i + 1)

\* Faulty variant: a resource met for the first time is put in front of the
\* resources already discovered.
RECURSIVE DiscoverResources_Prepends(_, _, _)
DiscoverResources_Prepends(map, roleConfig, i) ==
    IF i > Len(roleConfig) THEN map
    ELSE LET rn == roleConfig[i].key
             names == Keys(roleConfig[i].value)
             m1 == IF HasKey(map, rn) THEN map ELSE <<Entry(rn, <<>>)>> \o map
             m2 == [j \in 1..Len(m1) |->
                      IF m1[j].key = rn
                      THEN Entry(rn, AddAll(m1[j].value, names, 1)) ELSE m1[j]]
         IN  DiscoverResources_Prepends(m2, roleConfig, i + 1)

\* the body of "for (const rn of roleResourceNames)" for the i-th resource
\* of roleConfig onwards; map is mapResourceNameToActions
RECURSIVE DiscoverResources(_, _, _)
DiscoverResources(map, roleConfig, i) ==
    IF i > Len(roleConfig) THEN map
    ELSE LET rn == roleConfig[i].key
             names == Keys(roleConfig[i].value)
             m1 == IF HasKey(map, rn) THEN map ELSE Append(map, Entry(rn, <<>>))
             m2 == [j \in 1..Len(m1) |->
                      IF m1[j].key = rn
                      THEN Entry(rn, AddAll(m1[j].value, names, 1)) ELSE m1[j]]
         IN  DiscoverResources(m2, roleConfig, i + 1)

\* the body of "for (const r of roles)" for the i-th role of the table onwards
RECURSIVE DiscoverRoles(_, _, _)
DiscoverRoles(map, table, i) ==
    IF i > Len(table) THEN map
    ELSE DiscoverRoles(DiscoverResources(map, table[i].value, 1), table, i + 1)

mapResourceNameToActions(table) == DiscoverRoles(<<>>, table, 1)

\* Faulty variant: a role without an entry for the resource is reported as
\* allowed.
ActionPermissionStatus_MissingAllowed(table, role, res, act) ==
    LET roleConfig == Get(table, role) IN
    IF ~HasKey(roleConfig, res) THEN "Allowed"
    ELSE LET resourceConfig == Get(roleConfig, res) IN
         IF ~HasKey(resourceConfig, act) THEN "Denied"
         ELSE LET pv == Get(resourceConfig, act) IN
              IF pv.type = "boolean"
              THEN (IF pv.value THEN "Allowed" ELSE "Denied")
              ELSE "Conditional: " \o
                   (IF pv.description = NoDescription THEN "undefined" ELSE pv.description)

\* Faulty variant: the description of a conditional rule is left out.
ActionPermissionStatus_NoDescription(table, role, res, act) ==
    LET roleConfig == Get(table, role) IN
    IF ~HasKey(roleConfig, res) THEN "Denied"
    ELSE LET resourceConfig == Get(roleConfig, res) IN
         IF ~HasKey(resourceConfig, act) THEN "Denied"
         ELSE LET pv == Get(resourceConfig, act) IN
              IF pv.type = "boolean"
              THEN (IF pv.value THEN "Allowed" ELSE "Denied")
              ELSE "Conditional: "

\* Faulty variant: the predicate of a conditional rule is called (without a
\* principal) to decide the cell.
ActionPermissionStatus_Probing(table, role, res, act) ==
    LET roleConfig == Get(table, role) IN
    IF ~HasKey(roleConfig, res) THEN "Denied"
    ELSE LET resourceConfig == Get(roleConfig, res) IN
         IF ~HasKey(resourceConfig, act) THEN "Denied"
         ELSE LET pv == Get(resourceConfig, act) IN
              IF pv.type = "boolean"
              THEN (IF pv.value THEN "Allowed" ELSE "Denied")
              ELSE IF pv.checkFunction = NoFunction THEN "Denied"
              ELSE LET r == CheckFunction(pv.checkFunction, NullUser, NoData) IN
                   IF r.kind = "throw" THEN "Denied"
                   ELSE IF Truthy(r.value) THEN "Allowed"
                   ELSE "Conditional: " \o
                        (IF pv.description = NoDescription THEN "undefined"
                         ELSE pv.description)

\* Faulty variant: the cell is decided by the truthiness of the entry, which
\* makes a conditional rule "Allowed".
ActionPermissionStatus_Truthy(table, role, res, act) ==
    LET roleConfig == Get(table, role) IN
    IF ~HasKey(roleConfig, res) THEN "Denied"
    ELSE LET resourceConfig == Get(roleConfig, res) IN
         IF ~HasKey(resourceConfig, act) THEN "Denied"
         ELSE LET pv == Get(resourceConfig, act) IN
              IF pv.type = "boolean"
              THEN (IF pv.value THEN "Allowed" ELSE "Denied")
              ELSE "Allowed"

\* report[resource][action][role]
ActionPermissionStatus(table, role, res, act) ==
    LET roleConfig == Get(table, role) IN
    IF ~HasKey(roleConfig, res) THEN "Denied"
    ELSE LET resourceConfig == Get(roleConfig, res) IN
         IF ~HasKey(resourceConfig, act) THEN "Denied"
         ELSE LET pv == Get(resourceConfig, act) IN
              IF pv.type = "boolean"
              THEN (IF pv.value THEN "Allowed" ELSE "Denied")
              ELSE "Conditional: " \o
                   (IF pv.description = NoDescription THEN "undefined" ELSE pv.description)

\* Faulty variant: the nested map keeps no status for a role that is denied.
Report_SkipsDenied(table) ==
    LET map == mapResourceNameToActions(table)
        roles == Keys(table)
    IN  OwnPropertyOrder(
          [i \in 1..Len(map) |->
             Entry(map[i].key,
                   OwnPropertyOrder(
                     [j \in 1..Len(map[i].value) |->
                        Entry(map[i].value[j],
                              OwnPropertyOrder(
                                SelectSeq(
                                  [k \in 1..Len(roles) |->
                                     Entry(roles[k],
                                           ActionPermissionStatus(table, roles[k],
                                                                  map[i].key,
                                                                  map[i].value[j]))],
                                  LAMBDA e : e.value # "Denied")))]))])

\* the nested map resource -> action -> role -> status, a plain object at
\* each of its three levels
Report(table) ==
    LET map == mapResourceNameToActions(table)
        roles == Keys(table)
    IN  OwnPropertyOrder(
          [i \in 1..Len(map) |->
             Entry(map[i].key,
                   OwnPropertyOrder(
                     [j \in 1..Len(map[i].value) |->
                        Entry(map[i].value[j],
                              OwnPropertyOrder(
                                [k \in 1..Len(roles) |->
                                   Entry(roles[k],
                                         ActionPermissionStatus(table, roles[k],
                                                                map[i].key,
                                                                map[i].value[j]))]))]))])

\* the (resource, action) pairs of the nested loop over Object.keys(report)
\* and Object.keys(report[resource]), in loop order
RECURSIVE Pairs(_, _)
Pairs(report, i) ==
    IF i > Len(report) THEN <<>>
    ELSE [j \in 1..Len(report[i].value) |->
            [resource |-> report[i].key, action |-> report[i].value[j].key]]
         \o Pairs(report, i + 1)

\* Faulty variant: the description is looked up at [action][resource].
PermissionDescription_Swapped(docs, res, act) ==
    IF ~docs.supplied THEN Raise("TypeError")
    ELSE IF ~HasKey(docs.actionDescriptions, act) THEN Raise("TypeError")
    ELSE IF ~HasKey(Get(docs.actionDescriptions, act), res) THEN Raise("TypeError")
    ELSE Value(Get(Get(docs.actionDescriptions, act), res).description)

\* Faulty variant: a resource that is described without the action gives an
\* undefined description (as '?.description' would).
PermissionDescription_Lenient(docs, res, act) ==
    IF ~docs.supplied THEN Raise("TypeError")
    ELSE IF ~HasKey(docs.actionDescriptions, res) THEN Raise("TypeError")
    ELSE IF ~HasKey(Get(docs.actionDescriptions, res), act) THEN Value("undefined")
    ELSE Value(Get(Get(docs.actionDescriptions, res), act).description)

\* actionDocsConfig.actionDescriptions[resource][action].description
\* (a TypeError when a property is read off undefined)
PermissionDescription(docs, res, act) ==
    IF ~docs.supplied THEN Raise("TypeError")
    ELSE IF ~HasKey(docs.actionDescriptions, res) THEN Raise("TypeError")
    ELSE IF ~HasKey(Get(docs.actionDescriptions, res), act) THEN Raise("TypeError")
    ELSE Value(Get(Get(docs.actionDescriptions, res), act).description)

\* Faulty variant: the statuses are pushed in the reverse of the role order.
Row_ReversedRoles(table, docs, res, act) ==
    <<res, act, PermissionDescription(docs, res, act).value>>
    \o [k \in 1..Len(table) |->
          ActionPermissionStatus(table, table[Len(table) + 1 - k].key, res, act)]

\* one element of reportRows
Row(table, docs, res, act) ==
    <<res, act, PermissionDescription(docs, res, act).value>>
    \o [k \in 1..Len(table) |-> ActionPermissionStatus(table, table[k].key, res, act)]

\* Faulty variant: the role columns are not flagged as roles.
ReportHeader_NoFlags(table) ==
    << [columnName |-> "resourceArea", isRole |-> FALSE],
       [columnName |-> "permission", isRole |-> FALSE],
       [columnName |-> "permissionDescription", isRole |-> FALSE] >>
    \o [k \in 1..Len(table) |-> [columnName |-> table[k].key, isRole |-> FALSE]]

ReportHeader(table) ==
    << [columnName |-> "resourceArea", isRole |-> FALSE],
       [columnName |-> "permission", isRole |-> FALSE],
       [columnName |-> "permissionDescription", isRole |-> FALSE] >>
    \o [k \in 1..Len(table) |-> [columnName |-> table[k].key, isRole |-> TRUE]]

NoDocumentation ==
    [kind |-> "none", value |-> "", userRoleMode |-> "", report |-> <<>>,
     reportHeader |-> <<>>, reportRows |-> <<>>]

\* Faulty variant: the description table is required before the scan.
GeneratePermissionDocsIn_ChecksDocs(mode, table, docs) ==
    LET report == Report(table)
        pairs == Pairs(report, 1)
    IN  IF ~docs.supplied
           \/ \E i \in 1..Len(pairs) :
                 PermissionDescription(docs, pairs[i].resource, pairs[i].action).kind = "throw"
        THEN [NoDocumentation EXCEPT !.kind = "throw", !.value = "TypeError"]
        ELSE [kind |-> "return", value |-> "",
              userRoleMode |-> mode,
              report |-> report,
              reportHeader |-> ReportHeader(table),
              reportRows |-> [i \in 1..Len(pairs) |->
                                Row(table, docs, pairs[i].resource, pairs[i].action)]]

\* generatePermissionDocs of the engine baked with (mode, table, docs)
GeneratePermissionDocsIn(mode, table, docs) ==
    LET report == Report(table)
        pairs == Pairs(report, 1)
    IN  IF \E i \in 1..Len(pairs) :
              PermissionDescription(docs, pairs[i].resource, pairs[i].action).kind = "throw"
        THEN [NoDocumentation EXCEPT !.kind = "throw", !.value = "TypeError"]
        ELSE [kind |-> "return", value |-> "",
              userRoleMode |-> mode,
              report |-> report,
              reportHeader |-> ReportHeader(table),
              reportRows |-> [i \in 1..Len(pairs) |->
                                Row(table, docs, pairs[i].resource, pairs[i].action)]]

generatePermissionDocs ==
    GeneratePermissionDocsIn(userRoleMode, permissionsConfig, actionDocsConfig)

(***************************************************************************)
(* The engine                                                              *)
(***************************************************************************)
\* bakeAuthorization({ userRoleMode, permissionsConfig, actionDocsConfig })
\* has returned; no call is in progress.
Init ==
    /\ userRoleMode \in RoleModeBase
    /\ permissionsConfig \in Tables
    /\ actionDocsConfig \in DocsConfigs
    /\ op = "idle"
    /\ authUser = NullUser
    /\ resource = ""
    /\ action = ""
    /\ resourceData = NoData
    /\ outcome = NoOutcome
    /\ documentation = NoDocumentation
    /\ baked = config
    /\ previous = NoDocumentation
    /\ callers = <<>>

\* a call hasPermission(u, res, act, d), from its entry to its return or throw
HasPermission ==
    /\ op = "idle"
    /\ \E u \in Users, res \in ResourceNames, act \in ActionNames, d \in Datas :
        /\ op' = "hasPermission"
        /\ authUser' = u
        /\ resource' = res
        /\ action' = act
        /\ resourceData' = d
        /\ outcome' = hasPermission(u, res, act, d)
        /\ UNCHANGED <<config, documentation, baked, previous, callers>>

\* Faulty variant: the roles are consumed from the table while they are
\* scanned (each role deleted once processed), leaving the table empty.
GeneratePermissionDocs_Consuming ==
    /\ op = "idle"
    /\ op' = "generatePermissionDocs"
    /\ documentation' = generatePermissionDocs
    /\ permissionsConfig' = <<>>
    /\ UNCHANGED <<userRoleMode, actionDocsConfig, authUser, resource, action,
                   resourceData, outcome, baked, previous, callers>>

\* Faulty variant: reportRows is declared in the closure of bakeAuthorization
\* instead of inside generatePermissionDocs, so that a call appends its rows
\* to the rows of the calls before it.
GeneratePermissionDocs_SharedRows ==
    /\ op = "idle"
    /\ op' = "generatePermissionDocs"
    /\ documentation' =
          IF generatePermissionDocs.kind = "return"
          THEN [generatePermissionDocs EXCEPT !.reportRows = previous.reportRows \o @]
          ELSE generatePermissionDocs
    /\ UNCHANGED <<config, authUser, resource, action, resourceData, outcome,
                   baked, previous, callers>>

\* a call generatePermissionDocs(), from its entry to its return or throw
GeneratePermissionDocs ==
    /\ op = "idle"
    /\ op' = "generatePermissionDocs"
    /\ documentation' = generatePermissionDocs
    /\ UNCHANGED <<config, authUser, resource, action, resourceData, outcome,
                   baked, previous, callers>>

\* the caller has taken the result of the call; the engine keeps only its
\* configuration between calls
Returned ==
    /\ op # "idle"
    /\ op' = "idle"
    /\ authUser' = NullUser
    /\ resource' = ""
    /\ action' = ""
    /\ resourceData' = NoData
    /\ outcome' = NoOutcome
    /\ documentation' = NoDocumentation
    /\ previous' = IF op = "generatePermissionDocs" THEN documentation ELSE previous
    /\ UNCHANGED <<config, baked, callers>>

Next == HasPermission \/ GeneratePermissionDocs \/ Returned

Spec == Init /\ [][Next]_vars

(***************************************************************************)
(* The documented example                                                  *)
(***************************************************************************)
\* permissionsConfig of the "Example Configuration"
ExamplePermissionsConfig ==
    <<Entry("admin",
            <<Entry("todos", <<Entry("read", Bool(TRUE)), Entry("write", Bool(TRUE)),
                               Entry("delete", Bool(TRUE))>>)>>),
      Entry("moderator",
            <<Entry("todos", <<Entry("read", Bool(TRUE)), Entry("write", Bool(FALSE)),
                               Entry("delete", Bool(FALSE))>>)>>),
      Entry("user",
            <<Entry("todos", <<Entry("read", Bool(TRUE)), Entry("write", Bool(FALSE)),
                               Entry("delete", Cond("isAuthor", AuthorOnly))>>)>>),
      Entry("betaTester",
            <<Entry("betaResource", <<Entry("view", Bool(TRUE))>>)>>)>>

\* the descriptions of the example, in the shape ActionDescriptionConfig has
ACTIONS_DOC ==
    Docs(<<Entry("todos", <<Entry("read", Description("Read to-dos")),
                            Entry("write", Description("Write to-dos")),
                            Entry("delete", Description("Delete to-dos"))>>),
           Entry("betaResource", <<Entry("view", Description("View beta resource"))>>)>>)

\* the engine of the example has been baked, in either role mode
InitExample ==
    /\ userRoleMode \in RoleModeBase
    /\ permissionsConfig = ExamplePermissionsConfig
    /\ actionDocsConfig = ACTIONS_DOC
    /\ op = "idle"
    /\ authUser = NullUser
    /\ resource = ""
    /\ action = ""
    /\ resourceData = NoData
    /\ outcome = NoOutcome
    /\ documentation = NoDocumentation
    /\ baked = config
    /\ previous = NoDocumentation
    /\ callers = <<>>

SpecExample == InitExample /\ [][Next]_vars

(***************************************************************************)
(* Engines whose tables spread a resource over several roles               *)
(***************************************************************************)
\* the second role adds an action to the first resource of the first role
GroupedTable ==
    <<Entry("admin", <<Entry("todos", <<Entry("read", Bool(TRUE))>>),
                       Entry("betaResource", <<Entry("read", Bool(TRUE))>>)>>),
      Entry("user", <<Entry("todos", <<Entry("delete", Cond("isAuthor", AuthorOnly)),
                                       Entry("read", Bool(TRUE))>>)>>)>>

\* { admin: { todos: { read: true } },
\*   user: { todos: { delete: false }, 1: { read: true } } }
\* (the keys of an object literal are enumerated array indices first)
NumberedResourceTable ==
    <<Entry("admin", <<Entry("todos", <<Entry("read", Bool(TRUE))>>)>>),
      Entry("user", <<Entry("1", <<Entry("read", Bool(TRUE))>>),
                      Entry("todos", <<Entry("delete", Bool(FALSE))>>)>>)>>

\* { admin: { todos: { read: true } },
\*   user: { todos: { delete: false, 2: true } } }
NumberedActionTable ==
    <<Entry("admin", <<Entry("todos", <<Entry("read", Bool(TRUE))>>)>>),
      Entry("user", <<Entry("todos", <<Entry("2", Bool(TRUE)),
                                       Entry("delete", Bool(FALSE))>>)>>)>>

\* every role names the resources and actions in the same order
PlainTable ==
    <<Entry("admin", AdminConfig), Entry("user", UserConfig),
      Entry("", BetaTesterConfig)>>

OrderTables == {GroupedTable, NumberedResourceTable, NumberedActionTable, PlainTable}

ORDER_DOC_CONFIG ==
    Docs(<<Entry("1", <<Entry("read", Description("Read the first"))>>),
           Entry("todos", <<Entry("2", Description("Second to-do")),
                            Entry("read", Description("Read to-dos")),
                            Entry("delete", Description("Delete to-dos"))>>),
           Entry("betaResource", <<Entry("read", Description("View beta resource"))>>)>>)

InitOrder ==
    /\ userRoleMode \in RoleModeBase
    /\ permissionsConfig \in OrderTables
    /\ actionDocsConfig = ORDER_DOC_CONFIG
    /\ op = "idle"
    /\ authUser = NullUser
    /\ resource = ""
    /\ action = ""
    /\ resourceData = NoData
    /\ outcome = NoOutcome
    /\ documentation = NoDocumentation
    /\ baked = config
    /\ previous = NoDocumentation
    /\ callers = <<>>

SpecOrder == InitOrder /\ [][Next]_vars

(***************************************************************************)
(* Engines whose description table describes only a part of the names.     *)
(***************************************************************************)
\* a description table that describes the reading of both resources and
\* no other action
READS_DOC_CONFIG ==
    Docs(<<Entry("todos", <<Entry("read", Description("Read to-dos"))>>),
           Entry("betaResource", <<Entry("read", Description("View beta resource"))>>)>>)

\* { actionDescriptions: {} }
EMPTY_DOC_CONFIG == Docs(<<>>)

PartialDocsConfigs == {DOC_CONFIG, TODOS_DOC_CONFIG, READS_DOC_CONFIG, EMPTY_DOC_CONFIG}

PartialTables ==
    {<<Entry("admin", AdminConfig), Entry("user", UserConfig)>>,
     <<Entry("admin", AdminConfig), Entry("user", BetaTesterConfig)>>,
     <<Entry("admin", BetaTesterConfig)>>,
     <<Entry("admin", NothingConfig)>>,
     <<Entry("user", BetaTesterConfig), Entry("admin", ModeratorConfig)>>,
     <<Entry("admin", NoActionsConfig)>>}

InitPartial ==
    /\ userRoleMode \in RoleModeBase
    /\ permissionsConfig \in PartialTables
    /\ actionDocsConfig \in PartialDocsConfigs
    /\ op = "idle"
    /\ authUser = NullUser
    /\ resource = ""
    /\ action = ""
    /\ resourceData = NoData
    /\ outcome = NoOutcome
    /\ documentation = NoDocumentation
    /\ baked = config
    /\ previous = NoDocumentation
    /\ callers = <<>>

SpecPartial == InitPartial /\ [][Next]_vars

(***************************************************************************)
(* Concurrent callers of one engine                                        *)
(*                                                                         *)
(* Each caller runs one call at a time, statement by statement, on locals  *)
(* of its own; the steps of different callers interleave in any order.     *)
(***************************************************************************)
\* Number of concurrent callers.
NumCallers == 2

Callers == 1..NumCallers

\* the locals of a caller that is not inside a call
IdleCaller ==
    [pc |-> "idle", authUser |-> NullUser, resource |-> "", action |-> "",
     resourceData |-> NoData, i |-> 0, invoked |-> <<>>, inspected |-> <<>>,
     outcome |-> NoOutcome,
     mapResourceNameToActions |-> <<>>, report |-> <<>>, reportRows |-> <<>>,
     documentation |-> NoDocumentation]

\* the engines and arguments of the concurrent runs
ConcurrentTables ==
    {<<Entry("admin", AdminConfig), Entry("user", BetaTesterConfig)>>,
     <<Entry("user", UserConfig), Entry("admin", ThrowingConfig)>>,
     <<Entry("admin", NoActionsConfig)>>}

ConcurrentUsers ==
    {NullUser, SingleRoleAuthUser("user", "u1"),
     MultipleRolesAuthUser(<<"user", "admin">>, "u1"),
     BothShapesUser("admin", <<"admin", "user">>, "u2")}

\* report, built from the caller's own mapResourceNameToActions
ReportOver(map, table) ==
    LET roles == Keys(table)
    IN  OwnPropertyOrder(
          [i \in 1..Len(map) |->
             Entry(map[i].key,
                   OwnPropertyOrder(
                     [j \in 1..Len(map[i].value) |->
                        Entry(map[i].value[j],
                              OwnPropertyOrder(
                                [k \in 1..Len(roles) |->
                                   Entry(roles[k],
                                         ActionPermissionStatus(table, roles[k],
                                                                map[i].key,
                                                                map[i].value[j]))]))]))])

\* [resource, action, description] followed by report[resource][action][role]
\* for role of roles, read off the caller's own report
RowOver(report, docs, roles, res, act) ==
    LET cells == Get(Get(report, res), act)
    IN  <<res, act, PermissionDescription(docs, res, act).value>>
        \o [k \in 1..Len(roles) |-> Get(cells, roles[k])]

InitConcurrent ==
    /\ userRoleMode \in RoleModeBase
    /\ permissionsConfig \in ConcurrentTables
    /\ actionDocsConfig \in {DOC_CONFIG, TODOS_DOC_CONFIG}
    /\ op = "idle"
    /\ authUser = NullUser
    /\ resource = ""
    /\ action = ""
    /\ resourceData = NoData
    /\ outcome = NoOutcome
    /\ documentation = NoDocumentation
    /\ baked = config
    /\ previous = NoDocumentation
    /\ callers = [c \in Callers |-> IdleCaller]

\* everything but the callers' locals
shared == <<userRoleMode, permissionsConfig, actionDocsConfig,
            op, authUser, resource, action, resourceData, outcome, documentation,
            baked, previous>>

\* caller c calls hasPermission(u, res, act, d)
CallHasPermission(c) ==
    /\ callers[c].pc = "idle"
    /\ \E u \in ConcurrentUsers, act \in ActionNames, d \in {ToDo("u1"), ToDo("u2")} :
          callers' = [callers EXCEPT ![c] =
                         [IdleCaller EXCEPT !.pc = "hasPermission", !.authUser = u,
                                            !.resource = "todos", !.action = act,
                                            !.resourceData = d]]
    /\ UNCHANGED shared

\* the guards of hasPermission: the null principal, the branch, the role(s)
Guards(c) ==
    /\ callers[c].pc = "hasPermission"
    /\ LET u == callers[c].authUser
           deny == [callers[c] EXCEPT !.pc = "done",
                                      !.outcome = Return("false", <<>>, <<>>)]
       IN  callers' = [callers EXCEPT ![c] =
              IF u.isNull THEN deny
              ELSE IF isMultiRoleUser(u, userRoleMode)
                   THEN (IF ~u.hasRoles \/ Len(u.roles) = 0 THEN deny
                         ELSE [callers[c] EXCEPT !.pc = "some", !.i = 1])
                   ELSE (IF ~u.hasRole \/ u.role = "" THEN deny
                         ELSE [callers[c] EXCEPT !.pc = "single"])]
    /\ UNCHANGED shared

\* one run of the callback of authUser.roles.some(...), for the i-th role
SomeCallback(c) ==
    /\ callers[c].pc = "some"
    /\ LET l == callers[c]
           role == l.authUser.roles[l.i]
           e == Evaluate(PermissionValidation(permissionsConfig, role,
                                              l.resource, l.action),
                         l.authUser, l.resourceData)
           inv == l.invoked \o e.invoked
           insp == Append(l.inspected, role)
       IN  callers' = [callers EXCEPT ![c] =
              IF e.kind = "throw"
              THEN [l EXCEPT !.pc = "done", !.outcome = Throw(e.value, inv, insp)]
              ELSE IF Truthy(e.value)
              THEN [l EXCEPT !.pc = "done", !.outcome = Return("true", inv, insp)]
              ELSE IF l.i = Len(l.authUser.roles)
              THEN [l EXCEPT !.pc = "done", !.outcome = Return("false", inv, insp)]
              ELSE [l EXCEPT !.i = @ + 1, !.invoked = inv, !.inspected = insp]]
    /\ UNCHANGED shared

\* the rule of authUser.role is looked up and evaluated
SingleRoleLookup(c) ==
    /\ callers[c].pc = "single"
    /\ LET l == callers[c]
           e == Evaluate(PermissionValidation(permissionsConfig, l.authUser.role,
                                              l.resource, l.action),
                         l.authUser, l.resourceData)
       IN  callers' = [callers EXCEPT ![c] =
              [l EXCEPT !.pc = "done",
                        !.outcome = [e EXCEPT !.inspected = <<l.authUser.role>>]]]
    /\ UNCHANGED shared

\* caller c calls generatePermissionDocs(); its map is new and empty
CallGeneratePermissionDocs(c) ==
    /\ callers[c].pc = "idle"
    /\ callers' = [callers EXCEPT ![c] = [IdleCaller EXCEPT !.pc = "discover", !.i = 1]]
    /\ UNCHANGED shared

\* Faulty variant: mapResourceNameToActions is one map in the closure of
\* bakeAuthorization (kept here with caller 1), emptied when a call starts
\* and filled by whichever call is scanning.
DiscoverRole_SharedMap(c) ==
    /\ callers[c].pc = "discover"
    /\ LET l == callers[c]
           map == DiscoverResources(callers[1].mapResourceNameToActions,
                                    permissionsConfig[l.i].value, 1)
       IN  callers' =
              IF l.i > Len(permissionsConfig)
              THEN [callers EXCEPT ![c] = [l EXCEPT !.pc = "report"]]
              ELSE [[callers EXCEPT ![1].mapResourceNameToActions = map]
                       EXCEPT ![c].i = @ + 1, ![c].mapResourceNameToActions = map]
    /\ UNCHANGED shared

\* the body of "for (const r of roles)" for the i-th role: its resources and
\* their actions are added to the caller's map
DiscoverRole(c) ==
    /\ callers[c].pc = "discover"
    /\ LET l == callers[c]
       IN  callers' = [callers EXCEPT ![c] =
              IF l.i > Len(permissionsConfig)
              THEN [l EXCEPT !.pc = "report"]
              ELSE [l EXCEPT !.i = @ + 1,
                             !.mapResourceNameToActions =
                                 DiscoverResources(@, permissionsConfig[l.i].value, 1)]]
    /\ UNCHANGED shared

\* the nested map is filled for every discovered pair and every role
BuildReport(c) ==
    /\ callers[c].pc = "report"
    /\ callers' = [callers EXCEPT ![c] =
          [callers[c] EXCEPT !.pc = "rows", !.i = 1,
                             !.report = ReportOver(callers[c].mapResourceNameToActions,
                                                   permissionsConfig)]]
    /\ UNCHANGED shared

\* the i-th row is pushed (the description lookup may raise); after the last
\* row the documentation is built and returned
PushRow(c) ==
    /\ callers[c].pc = "rows"
    /\ LET l == callers[c]
           pairs == Pairs(l.report, 1)
       IN  callers' = [callers EXCEPT ![c] =
              IF l.i > Len(pairs)
              THEN [l EXCEPT !.pc = "done",
                             !.documentation =
                                 [kind |-> "return", value |-> "",
                                  userRoleMode |-> userRoleMode,
                                  report |-> l.report,
                                  reportHeader |-> ReportHeader(permissionsConfig),
                                  reportRows |-> l.reportRows]]
              ELSE IF PermissionDescription(actionDocsConfig, pairs[l.i].resource,
                                            pairs[l.i].action).kind = "throw"
              THEN [l EXCEPT !.pc = "done",
                             !.documentation =
                                 [NoDocumentation EXCEPT !.kind = "throw",
                                                         !.value = "TypeError"]]
              ELSE [l EXCEPT !.i = @ + 1,
                             !.reportRows =
                                 Append(@, RowOver(l.report, actionDocsConfig,
                                                   Keys(permissionsConfig),
                                                   pairs[l.i].resource,
                                                   pairs[l.i].action))]]
    /\ UNCHANGED shared

\* caller c has the result of its call and drops the locals
CallerReturned(c) ==
    /\ callers[c].pc = "done"
    /\ callers' = [callers EXCEPT ![c] = IdleCaller]
    /\ UNCHANGED shared

NextConcurrent ==
    \E c \in Callers :
        \/ CallHasPermission(c)
        \/ Guards(c)
        \/ SomeCallback(c)
        \/ SingleRoleLookup(c)
        \/ CallGeneratePermissionDocs(c)
        \/ DiscoverRole(c)
        \/ BuildReport(c)
        \/ PushRow(c)
        \/ CallerReturned(c)

SpecConcurrent == InitConcurrent /\ [][NextConcurrent]_vars

(***************************************************************************)
(* What the table says, read off the table directly                        *)
(***************************************************************************)
\* the table has an entry at (role, res, act)
Specified(table, role, res, act) ==
    \E i \in 1..Len(table) :
        /\ table[i].key = role
        /\ \E j \in 1..Len(table[i].value) :
              /\ table[i].value[j].key = res
              /\ \E k \in 1..Len(table[i].value[j].value) :
                    table[i].value[j].value[k].key = act

\* the rule at a specified (role, res, act)
RuleAt(table, role, res, act) ==
    LET i == CHOOSE i \in 1..Len(table) : table[i].key = role
        j == CHOOSE j \in 1..Len(table[i].value) : table[i].value[j].key = res
        k == CHOOSE k \in 1..Len(table[i].value[j].value) :
                 table[i].value[j].value[k].key = act
    IN  table[i].value[j].value[k].value

\* the roles whose rules a call consults: the roles array in multi-role
\* mode, the role field in single-role mode
HeldRoles ==
    IF userRoleMode = "multiRole"
    THEN (IF authUser.hasRoles THEN {authUser.roles[i] : i \in 1..Len(authUser.roles)} ELSE {})
    ELSE (IF authUser.hasRole /\ authUser.role # "" THEN {authUser.role} ELSE {})

Called == op = "hasPermission"
Denied == outcome.kind = "return" /\ outcome.value = "false"
Granted == outcome.kind = "return" /\ outcome.value = "true"

(***************************************************************************)
(* C1  Fail-closed: hasPermission(null, R, A, data) returns false in both  *)
(* modes, for every table, before any role is inspected and without        *)
(* invoking any predicate.                                                 *)
(***************************************************************************)
C1_FailClosed ==
    (Called /\ authUser.isNull) => outcome = Return("false", <<>>, <<>>)

\* a null principal was denied although the table grants the slot to a role
C1_Witness ==
    /\ Called /\ authUser.isNull /\ Denied
    /\ \E i \in 1..Len(permissionsConfig) :
          /\ Specified(permissionsConfig, permissionsConfig[i].key, resource, action)
          /\ RuleAt(permissionsConfig, permissionsConfig[i].key, resource, action) = Bool(TRUE)

(***************************************************************************)
(* C2  Unspecified is denied: a role with no entry at (resource, action)   *)
(* (role not a key, no entry for the resource, or none for the action)     *)
(* contributes deny; when none of the principal's roles has an entry the   *)
(* call returns false, invokes nothing and raises nothing; a grant always  *)
(* comes from a role that has an entry.                                    *)
(***************************************************************************)
C2_UnspecifiedIsDenied ==
    (Called /\ ~authUser.isNull) =>
        /\ (\A r \in HeldRoles : ~Specified(permissionsConfig, r, resource, action))
              => (Denied /\ outcome.invoked = <<>>)
        /\ (outcome.kind = "return" /\ Truthy(outcome.value))
              => /\ outcome.inspected # <<>>
                 /\ Specified(permissionsConfig,
                              outcome.inspected[Len(outcome.inspected)], resource, action)

\* two held roles, the first not a key of the table, the second a key with
\* no entry for the resource, while another role of the table is granted it
C2_Witness ==
    /\ Called /\ userRoleMode = "multiRole" /\ authUser.hasRoles /\ Denied
    /\ Len(authUser.roles) = 2
    /\ ~HasKey(permissionsConfig, authUser.roles[1])
    /\ HasKey(permissionsConfig, authUser.roles[2])
    /\ ~HasKey(Get(permissionsConfig, authUser.roles[2]), resource)
    /\ \E i \in 1..Len(permissionsConfig) :
          /\ Specified(permissionsConfig, permissionsConfig[i].key, resource, action)
          /\ RuleAt(permissionsConfig, permissionsConfig[i].key, resource, action) = Bool(TRUE)

SingleRoleOutcome(r) ==
    HasPermissionIn("singleRole", permissionsConfig,
                    SingleRoleAuthUser(r, authUser.userId), resource, action, resourceData)

MultiRoleCall ==
    Called /\ userRoleMode = "multiRole" /\ ~authUser.isNull /\ authUser.hasRoles

SteadyRule(r) ==
    (/\ Specified(permissionsConfig, r, resource, action)
     /\ RuleAt(permissionsConfig, r, resource, action).type = "object"
     /\ RuleAt(permissionsConfig, r, resource, action).checkFunction # NoFunction) =>
        LET f == RuleAt(permissionsConfig, r, resource, action).checkFunction
        IN  /\ CheckFunction(f, authUser, resourceData).kind = "return"
            /\ CheckFunction(f, authUser, resourceData) =
               CheckFunction(f, SingleRoleAuthUser(r, authUser.userId), resourceData)

NoRoleInformation ==
    \/ userRoleMode = "multiRole" /\ (~authUser.hasRoles \/ authUser.roles = <<>>)
    \/ userRoleMode = "singleRole" /\ (~authUser.hasRole \/ authUser.role = "")

C5_NoRoleDenied ==
    (Called /\ ~authUser.isNull /\ NoRoleInformation) =>
        outcome = Return("false", <<>>, <<>>)

\* role "" in single-role mode, although the table grants the slot to ""
C5_Witness ==
    /\ Called /\ userRoleMode = "singleRole" /\ Denied
    /\ authUser.hasRole /\ authUser.role = ""
    /\ Specified(permissionsConfig, "", resource, action)
    /\ RuleAt(permissionsConfig, "", resource, action) = Bool(TRUE)

(***************************************************************************)
(* C6  A predicate that raises during hasPermission is not caught: the     *)
(* call ends with that same failure, in both modes, and does not return    *)
(* false in its place.                                                     *)
(***************************************************************************)
\* the predicate of the rule of r at the slot raises for this call
RaisingRule(r) ==
    /\ Specified(permissionsConfig, r, resource, action)
    /\ RuleAt(permissionsConfig, r, resource, action).type = "object"
    /\ RuleAt(permissionsConfig, r, resource, action).checkFunction # NoFunction
    /\ CheckFunction(RuleAt(permissionsConfig, r, resource, action).checkFunction,
                     authUser, resourceData).kind = "throw"

C6_PredicateFailurePropagates ==
    Called =>
        /\ \A i \in 1..Len(outcome.invoked) :
              LET r == CheckFunction(outcome.invoked[i].checkFunction,
                                     outcome.invoked[i].user, outcome.invoked[i].data)
              IN  r.kind = "throw" =>
                     /\ outcome.kind = "throw" /\ outcome.value = r.value
                     /\ i = Len(outcome.invoked)
        /\ (/\ userRoleMode = "singleRole" /\ ~authUser.isNull
            /\ authUser.hasRole /\ authUser.role # "" /\ RaisingRule(authUser.role))
              => (outcome.kind = "throw" /\ outcome.value = "boom")
        /\ (MultiRoleCall /\ authUser.roles # <<>> /\ RaisingRule(authUser.roles[1]))
              => (outcome.kind = "throw" /\ outcome.value = "boom")

\* multi-role mode: the first role denied, the predicate of the second raised
C6_Witness ==
    /\ MultiRoleCall /\ outcome.kind = "throw" /\ outcome.value = "boom"
    /\ Len(outcome.inspected) = 2 /\ Len(outcome.invoked) = 1
    /\ RaisingRule(authUser.roles[2])

(***************************************************************************)
(* C7  Missing or non-boolean predicate results.                           *)
(***************************************************************************)
ConditionalAt(r) ==
    /\ Specified(permissionsConfig, r, resource, action)
    /\ RuleAt(permissionsConfig, r, resource, action).type = "object"

\* r has no entry, an explicit false, or a conditional rule whose predicate
\* is missing or returns one of the values in denying
NoGrantFrom(r, denying) ==
    \/ ~Specified(permissionsConfig, r, resource, action)
    \/ RuleAt(permissionsConfig, r, resource, action) = Bool(FALSE)
    \/ /\ ConditionalAt(r)
       /\ LET f == RuleAt(permissionsConfig, r, resource, action).checkFunction
          IN  \/ f = NoFunction
              \/ /\ CheckFunction(f, authUser, resourceData).kind = "return"
                 /\ CheckFunction(f, authUser, resourceData).value \in denying

\* C7 as stated: a conditional rule without predicate, or whose predicate
\* returns anything but the boolean true (null, undefined, another
\* non-boolean), is a deny; hasPermission returns the boolean false when no
\* other held role grants.
C7_Original ==
    (/\ Called /\ ~authUser.isNull
     /\ \E r \in HeldRoles : ConditionalAt(r)
     /\ \A r \in HeldRoles : NoGrantFrom(r, {"false", "undefined", "null", "1"})) => Denied

\* C7 as amended: a conditional rule without predicate, or whose predicate
\* returns null or undefined, is a deny and never an error; hasPermission
\* returns the boolean false when no other held role grants.
C7_MissingResultIsDeny ==
    (/\ Called /\ ~authUser.isNull
     /\ \E r \in HeldRoles : ConditionalAt(r)
     /\ \A r \in HeldRoles : NoGrantFrom(r, {"false", "undefined", "null"})) => Denied

\* two held roles whose predicates were both invoked and returned nothing
C7_Witness ==
    /\ MultiRoleCall /\ Denied /\ Len(outcome.invoked) = 2
    /\ \A i \in 1..2 :
          Nullish(CheckFunction(outcome.invoked[i].checkFunction,
                                outcome.invoked[i].user, outcome.invoked[i].data).value)

(***************************************************************************)
(* Reports                                                                 *)
(***************************************************************************)
Generated == op = "generatePermissionDocs"
Reported == Generated /\ documentation.kind = "return"

\* some role of the table has an entry at (res, act)
Configured(res, act) ==
    \E i \in 1..Len(permissionsConfig) :
        Specified(permissionsConfig, permissionsConfig[i].key, res, act)

RowsOf(res, act) ==
    {i \in 1..Len(documentation.reportRows) :
        documentation.reportRows[i][1] = res /\ documentation.reportRows[i][2] = act}

(***************************************************************************)
(* C8  Missing-description error: on an engine constructed without an      *)
(* Action Description Table every call of generatePermissionDocs raises,   *)
(* for every permission table; it never returns a report.                  *)
(***************************************************************************)
C8_MissingDescriptionError ==
    (Generated /\ ~actionDocsConfig.supplied) => documentation.kind = "throw"

(***************************************************************************)
(* C9  Report completeness: in a returned report every (resource, action)  *)
(* pair configured under at least one role is exactly one row, a pair      *)
(* configured under no role is no row, and every row has 3 + number of     *)
(* roles elements.                                                         *)
(***************************************************************************)
C9_ReportCompleteness ==
    Reported =>
        /\ \A res \in ResourceNames, act \in ActionNames :
              Cardinality(RowsOf(res, act)) = IF Configured(res, act) THEN 1 ELSE 0
        /\ \A i \in 1..Len(documentation.reportRows) :
              /\ Len(documentation.reportRows[i]) = 3 + Len(permissionsConfig)
              /\ documentation.reportRows[i][1] \in ResourceNames
              /\ documentation.reportRows[i][2] \in ActionNames

\* a report over two roles: one pair configured by both of them, another
\* by the second role only
C9_Witness ==
    /\ Reported /\ Len(permissionsConfig) = 2
    /\ \E res \in ResourceNames, act \in ActionNames :
          /\ Specified(permissionsConfig, permissionsConfig[1].key, res, act)
          /\ Specified(permissionsConfig, permissionsConfig[2].key, res, act)
          /\ Cardinality(RowsOf(res, act)) = 1
    /\ \E res \in ResourceNames, act \in ActionNames :
          /\ ~Specified(permissionsConfig, permissionsConfig[1].key, res, act)
          /\ Specified(permissionsConfig, permissionsConfig[2].key, res, act)
          /\ Cardinality(RowsOf(res, act)) = 1

(***************************************************************************)
(* C10  Cells of boolean and missing entries: for every discovered pair    *)
(* and every role the cell is "Denied" when the role has no entry for the  *)
(* resource or the action, "Allowed" for the boolean true and "Denied" for *)
(* the boolean false, in the nested map and in the rows alike.             *)
(***************************************************************************)
\* the cell the table prescribes; conditional rules are not constrained here
PrescribedCell(role, res, act, cell) ==
    IF ~Specified(permissionsConfig, role, res, act) THEN cell = "Denied"
    ELSE IF RuleAt(permissionsConfig, role, res, act) = Bool(TRUE) THEN cell = "Allowed"
    ELSE IF RuleAt(permissionsConfig, role, res, act) = Bool(FALSE) THEN cell = "Denied"
    ELSE TRUE

C10_CellStatus ==
    Reported =>
        /\ \A i \in 1..Len(documentation.reportRows), k \in 1..Len(permissionsConfig) :
              PrescribedCell(permissionsConfig[k].key,
                             documentation.reportRows[i][1],
                             documentation.reportRows[i][2],
                             documentation.reportRows[i][3 + k])
        /\ \A i \in 1..Len(documentation.report) :
              \A j \in 1..Len(documentation.report[i].value) :
                 \A k \in 1..Len(documentation.report[i].value[j].value) :
                    PrescribedCell(documentation.report[i].value[j].value[k].key,
                                   documentation.report[i].key,
                                   documentation.report[i].value[j].key,
                                   documentation.report[i].value[j].value[k].value)

\* a row of a pair that only the first role configures (as allowed): the
\* second role, which has no entry for the resource, is denied
C10_Witness ==
    /\ Reported /\ Len(permissionsConfig) = 2
    /\ \E i \in 1..Len(documentation.reportRows) :
          /\ Specified(permissionsConfig, permissionsConfig[1].key,
                       documentation.reportRows[i][1], documentation.reportRows[i][2])
          /\ RuleAt(permissionsConfig, permissionsConfig[1].key,
                    documentation.reportRows[i][1],
                    documentation.reportRows[i][2]) = Bool(TRUE)
          /\ ~HasKey(permissionsConfig[2].value, documentation.reportRows[i][1])
          /\ documentation.reportRows[i][4] = "Allowed"
          /\ documentation.reportRows[i][5] = "Denied"

(***************************************************************************)
(* C11  Cells of conditional rules.                                        *)
(***************************************************************************)
\* P(role, res, act, cell) holds of every cell of the returned report, in
\* the nested map and in the rows
ForAllCells(P(_, _, _, _)) ==
    /\ \A i \in 1..Len(documentation.reportRows), k \in 1..Len(permissionsConfig) :
          P(permissionsConfig[k].key, documentation.reportRows[i][1],
            documentation.reportRows[i][2], documentation.reportRows[i][3 + k])
    /\ \A i \in 1..Len(documentation.report) :
          \A j \in 1..Len(documentation.report[i].value) :
             \A k \in 1..Len(documentation.report[i].value[j].value) :
                P(documentation.report[i].value[j].value[k].key,
                  documentation.report[i].key,
                  documentation.report[i].value[j].key,
                  documentation.report[i].value[j].value[k].value)

ConditionalRule(role, res, act) ==
    /\ Specified(permissionsConfig, role, res, act)
    /\ RuleAt(permissionsConfig, role, res, act).type = "object"

\* the cell of a conditional rule carries the rule's description, or, when
\* the rule has none, a placeholder text: a description, not a boolean
\* status and not the rendering of the missing value
PlaceholderCell(role, res, act, cell) ==
    ConditionalRule(role, res, act) =>
        IF RuleAt(permissionsConfig, role, res, act).description # NoDescription
        THEN cell = "Conditional: " \o RuleAt(permissionsConfig, role, res, act).description
        ELSE cell \notin {"Allowed", "Denied", "Conditional: ", "Conditional: undefined"}

\* C11 as stated: the cell of a conditional rule is 'Conditional: ' followed
\* by the rule's description, or by a fallback placeholder description when
\* the rule has no description.
C11_Original == Reported => ForAllCells(PlaceholderCell)

InterpolatedCell(role, res, act, cell) ==
    ConditionalRule(role, res, act) =>
        cell = "Conditional: " \o
               (IF RuleAt(permissionsConfig, role, res, act).description = NoDescription
                THEN "undefined"
                ELSE RuleAt(permissionsConfig, role, res, act).description)

\* C11 as amended: the cell of a conditional rule is 'Conditional: '
\* followed by the rule's description when it has one, and the text
\* 'Conditional: undefined' when it has none (no placeholder is substituted).
C11_ConditionalCell == Reported => ForAllCells(InterpolatedCell)

\* one row with a described conditional rule under the first role and an
\* undescribed one under the second
C11_Witness ==
    /\ Reported /\ Len(permissionsConfig) = 2
    /\ \E i \in 1..Len(documentation.reportRows) :
          /\ documentation.reportRows[i][4] = "Conditional: " \o AuthorOnly
          /\ documentation.reportRows[i][5] = "Conditional: undefined"

DescribedAs(res, act, d) ==
    \E i \in 1..Len(actionDocsConfig.actionDescriptions) :
        /\ actionDocsConfig.actionDescriptions[i].key = res
        /\ \E j \in 1..Len(actionDocsConfig.actionDescriptions[i].value) :
              /\ actionDocsConfig.actionDescriptions[i].value[j].key = act
              /\ actionDocsConfig.actionDescriptions[i].value[j].value.description = d

\* the cell of the nested map at (res, act, role) is cell
NestedCell(res, act, role, cell) ==
    \E i \in 1..Len(documentation.report) :
        /\ documentation.report[i].key = res
        /\ \E j \in 1..Len(documentation.report[i].value) :
              /\ documentation.report[i].value[j].key = act
              /\ \E k \in 1..Len(documentation.report[i].value[j].value) :
                    /\ documentation.report[i].value[j].value[k].key = role
                    /\ documentation.report[i].value[j].value[k].value = cell

C13_RowShape ==
    Reported =>
        \A i \in 1..Len(documentation.reportRows) :
            LET row == documentation.reportRows[i] IN
            /\ Len(row) = 3 + Len(permissionsConfig)
            /\ Configured(row[1], row[2])
            /\ DescribedAs(row[1], row[2], row[3])
            /\ \A k \in 1..Len(permissionsConfig) :
                  /\ documentation.reportHeader[3 + k].columnName = permissionsConfig[k].key
                  /\ NestedCell(row[1], row[2], permissionsConfig[k].key, row[3 + k])
                  /\ PrescribedCell(permissionsConfig[k].key, row[1], row[2], row[3 + k])
                  /\ InterpolatedCell(permissionsConfig[k].key, row[1], row[2], row[3 + k])

\* the row of (todos, delete) over the roles user, admin in that order
C13_Witness ==
    /\ Reported /\ Keys(permissionsConfig) = <<"user", "admin">>
    /\ \E i \in 1..Len(documentation.reportRows) :
          documentation.reportRows[i] =
             <<"todos", "delete", "Delete to-dos", "Conditional: " \o AuthorOnly, "Allowed">>

(***************************************************************************)
(* C14  Header: the three columns resourceArea, permission,                *)
(* permissionDescription in that order, none flagged as a role, then one   *)
(* column per top-level key of the permission table in the table's key     *)
(* order, each flagged as a role; as long as every row.                    *)
(***************************************************************************)
C14_Header ==
    Reported =>
        LET header == documentation.reportHeader IN
        /\ Len(header) = 3 + Len(permissionsConfig)
        /\ header[1] = [columnName |-> "resourceArea", isRole |-> FALSE]
        /\ header[2] = [columnName |-> "permission", isRole |-> FALSE]
        /\ header[3] = [columnName |-> "permissionDescription", isRole |-> FALSE]
        /\ \A k \in 1..Len(permissionsConfig) :
              header[3 + k] = [columnName |-> permissionsConfig[k].key, isRole |-> TRUE]
        /\ \A i \in 1..Len(documentation.reportRows) :
              Len(documentation.reportRows[i]) = Len(header)

\* a header over the roles user, admin (the reverse of alphabetical order)
\* above at least one row
C14_Witness ==
    /\ Reported /\ documentation.reportRows # <<>>
    /\ Len(documentation.reportHeader) = 5
    /\ documentation.reportHeader[4].columnName = "user"
    /\ documentation.reportHeader[5].columnName = "admin"

PredicateFailure ==
    /\ outcome.kind = "throw"
    /\ outcome.invoked # <<>>
    /\ LET last == outcome.invoked[Len(outcome.invoked)]
       IN  CheckFunction(last.checkFunction, last.user, last.data) = Raise(outcome.value)

C16_DocsNotNeeded ==
    Called =>
        /\ \A docs \in DocsConfigs :
              HasPermissionBaked(userRoleMode, permissionsConfig, docs,
                                 authUser, resource, action, resourceData) = outcome
        /\ outcome.kind = "throw" => PredicateFailure

\* the engine has no description table; the owner of the record is granted
\* by a conditional rule
C16_Witness ==
    /\ Called /\ ~actionDocsConfig.supplied /\ Granted
    /\ outcome.invoked = <<Invocation("isAuthor", authUser, resourceData)>>

(***************************************************************************)
(* C17  Concurrent use is safe: under every interleaving of the steps of   *)
(* hasPermission and generatePermissionDocs calls of concurrent callers on *)
(* one engine, a call that has finished has the result the same call has   *)
(* when it runs alone, and the permission table, the description table and *)
(* the role mode are those supplied at construction.                       *)
(***************************************************************************)
\* caller c has finished a call of hasPermission / generatePermissionDocs
FinishedCheck(c) == callers[c].pc = "done" /\ callers[c].documentation.kind = "none"
FinishedDocs(c) == callers[c].pc = "done" /\ callers[c].documentation.kind # "none"

C17_ConcurrentSafe ==
    /\ config = baked
    /\ \A c \in Callers :
          /\ FinishedCheck(c) =>
                callers[c].outcome =
                   HasPermissionIn(baked[1], baked[2], callers[c].authUser,
                                   callers[c].resource, callers[c].action,
                                   callers[c].resourceData)
          /\ FinishedDocs(c) =>
                callers[c].documentation =
                   GeneratePermissionDocsIn(baked[1], baked[2], baked[3])

\* one caller has its report while another is between two rows of its own
\* and has pushed one of them
C17_Witness ==
    \E c, d \in Callers :
        /\ c # d
        /\ FinishedDocs(c) /\ Len(callers[c].documentation.reportRows) >= 2
        /\ callers[d].pc = "rows" /\ Len(callers[d].reportRows) = 1

(***************************************************************************)
(* C18  Neither operation changes the configuration: the permission table, *)
(* the description table and the role mode are, after any sequence of      *)
(* calls (denying, raising or failing ones included), those given at       *)
(* construction; hasPermission hands the principal and the resourceData it *)
(* was given to the predicates as they are.                                *)
(***************************************************************************)
C18_ConfigurationUnchanged ==
    /\ config = baked
    /\ Called => \A i \in 1..Len(outcome.invoked) :
                    /\ outcome.invoked[i].user = authUser
                    /\ outcome.invoked[i].data = resourceData

\* a call whose predicate raised, after a generatePermissionDocs call that
\* failed
C18_Witness ==
    /\ Called /\ outcome.kind = "throw" /\ outcome.invoked # <<>>
    /\ previous.kind = "throw"
    /\ permissionsConfig = baked[2]
    /\ actionDocsConfig = baked[3]

(***************************************************************************)
(* C19  Errors raised by the core itself.                                  *)
(***************************************************************************)
\* the Action Description Table has an entry at (res, act)
HasDescription(res, act) ==
    \E i \in 1..Len(actionDocsConfig.actionDescriptions) :
        /\ actionDocsConfig.actionDescriptions[i].key = res
        /\ \E j \in 1..Len(actionDocsConfig.actionDescriptions[i].value) :
              actionDocsConfig.actionDescriptions[i].value[j].key = act

\* every pair configured under some role is described
AllDescribed ==
    \A res \in ResourceNames, act \in ActionNames :
        Configured(res, act) => HasDescription(res, act)

IsPrefix(s, t) == Len(s) <= Len(t) /\ \A i \in 1..Len(s) : s[i] = t[i]

C20_ModeSelectsBranch ==
    /\ userRoleMode = baked[1]
    /\ Reported => documentation.userRoleMode = baked[1]
    /\ (Called /\ ~authUser.isNull /\ baked[1] = "singleRole") =>
          /\ ~authUser.hasRole => outcome = Return("false", <<>>, <<>>)
          /\ authUser.hasRole => IsPrefix(outcome.inspected, <<authUser.role>>)
    /\ (Called /\ ~authUser.isNull /\ baked[1] = "multiRole") =>
          /\ ~authUser.hasRoles => outcome = Return("false", <<>>, <<>>)
          /\ authUser.hasRoles => IsPrefix(outcome.inspected, authUser.roles)

\* a single-role engine denies a principal that carries only the roles
\* sequence <<admin>>, although the table allows the slot to admin
C20_Witness ==
    /\ Called /\ baked[1] = "singleRole" /\ Denied
    /\ ~authUser.hasRole /\ authUser.hasRoles /\ authUser.roles = <<"admin">>
    /\ Specified(permissionsConfig, "admin", resource, action)
    /\ RuleAt(permissionsConfig, "admin", resource, action) = Bool(TRUE)

(***************************************************************************)
(* C21  The report is independent of any principal and of the predicates:  *)
(* whatever hasPermission calls preceded it, a generatePermissionDocs call *)
(* produces what the engine baked with the same table stripped of all its  *)
(* predicates produces; it fails only for a missing description, never for *)
(* a predicate that would raise.                                           *)
(***************************************************************************)
\* the rule without its predicate
WithoutPredicate(rule) ==
    IF rule.type = "object" THEN Cond(NoFunction, rule.description) ELSE rule

\* the table with every conditional rule stripped of its predicate
WithoutPredicates(table) ==
    [i \in 1..Len(table) |->
       Entry(table[i].key,
             [j \in 1..Len(table[i].value) |->
                Entry(table[i].value[j].key,
                      [k \in 1..Len(table[i].value[j].value) |->
                         Entry(table[i].value[j].value[k].key,
                               WithoutPredicate(table[i].value[j].value[k].value))])])]

\* some rule of the table has the predicate f
HasPredicate(f) ==
    \E i \in 1..Len(permissionsConfig) :
       \E j \in 1..Len(permissionsConfig[i].value) :
          \E k \in 1..Len(permissionsConfig[i].value[j].value) :
             LET rule == permissionsConfig[i].value[j].value[k].value
             IN  rule.type = "object" /\ rule.checkFunction = f

C21_PrincipalIndependent ==
    Generated =>
        /\ documentation =
              GeneratePermissionDocsIn(baked[1], WithoutPredicates(baked[2]), baked[3])
        /\ documentation.kind = "throw" =>
              (~actionDocsConfig.supplied \/ ~AllDescribed)

\* a report over a table with a predicate that raises and one that grants
\* whatever it is given, after an earlier report
C21_Witness ==
    /\ Reported /\ previous.kind = "return"
    /\ HasPredicate("throws") /\ HasPredicate("returnsOne")
    /\ \E i \in 1..Len(documentation.reportRows) :
          /\ documentation.reportRows[i][4] = "Conditional: Never decided"
          /\ documentation.reportRows[i][5] = "Conditional: One"

(***************************************************************************)
(* C22  Order of the role sequence.                                        *)
(***************************************************************************)
\* the ways to reorder n positions
Orders ==
    [n \in 0..(MaxHeld + 1) |->
       {p \in [1..n -> 1..n] : \A i, j \in 1..n : p[i] = p[j] => i = j}]

\* the sequences that hold the elements of s in another order
Reorderings(s) == {[i \in 1..Len(s) |-> s[p[i]]] : p \in Orders[Len(s)]}

\* the principal of the call with the role sequence t
WithRoles(t) == [authUser EXCEPT !.roles = t]

\* the outcome of the call, had the principal held the sequence t
OutcomeWith(t) ==
    HasPermissionIn("multiRole", permissionsConfig, WithRoles(t),
                    resource, action, resourceData)

\* C22 as stated: in multi-role mode every two role sequences that are
\* permutations of each other yield the same outcome, the same returned
\* value or the same propagated failure.
C22_Original ==
    MultiRoleCall =>
        \A t \in Reorderings(authUser.roles) :
            LET o == OutcomeWith(t)
            IN  o.kind = outcome.kind /\ o.value = outcome.value

\* the rule of r at the slot, if it has a predicate, does not raise and
\* answers the same for every order of the principal's roles
OrderBlindRule(r) ==
    (/\ Specified(permissionsConfig, r, resource, action)
     /\ RuleAt(permissionsConfig, r, resource, action).type = "object"
     /\ RuleAt(permissionsConfig, r, resource, action).checkFunction # NoFunction) =>
        LET f == RuleAt(permissionsConfig, r, resource, action).checkFunction
        IN  /\ CheckFunction(f, authUser, resourceData).kind = "return"
            /\ \A t \in Reorderings(authUser.roles) :
                  CheckFunction(f, WithRoles(t), resourceData) =
                  CheckFunction(f, authUser, resourceData)

\* C22 as amended: when the predicates of the held roles' rules at the slot
\* do not raise and do not depend on the order of the principal's roles,
\* every two role sequences that are permutations of each other yield the
\* same returned value.
C22_OrderIndependent ==
    (MultiRoleCall /\ \A r \in HeldRoles : OrderBlindRule(r)) =>
        \A t \in Reorderings(authUser.roles) :
            LET o == OutcomeWith(t)
            IN  o.kind = "return" /\ o.value = outcome.value

\* two different roles, the second of which grants: in the given order both
\* are consulted, in the other order one
C22_Witness ==
    /\ MultiRoleCall /\ Granted /\ Len(authUser.roles) = 2
    /\ authUser.roles[1] # authUser.roles[2]
    /\ \A r \in HeldRoles : OrderBlindRule(r)
    /\ outcome.inspected = authUser.roles
    /\ OutcomeWith(<<authUser.roles[2], authUser.roles[1]>>).inspected
          = <<authUser.roles[2]>>

(***************************************************************************)
(* C23  In multi-role mode the roles are evaluated in sequence order and   *)
(* the evaluation stops at the first role that grants: the roles consulted *)
(* are an initial segment of the sequence, every role before the last      *)
(* consulted one did not grant, the call returns true exactly when the     *)
(* last consulted role grants, and the predicates invoked are those of the *)
(* consulted roles whose rule at the slot is conditional, once each, in    *)
(* that order.                                                             *)
(***************************************************************************)
\* the rule of r at the slot has a predicate
InvokesPredicate(r) ==
    /\ Specified(permissionsConfig, r, resource, action)
    /\ RuleAt(permissionsConfig, r, resource, action).type = "object"
    /\ RuleAt(permissionsConfig, r, resource, action).checkFunction # NoFunction

\* what the rule of r at the slot yields for the principal and data of the
\* call, read off the table
YieldOf(r) ==
    IF ~Specified(permissionsConfig, r, resource, action) THEN Value("false")
    ELSE LET rule == RuleAt(permissionsConfig, r, resource, action) IN
         IF rule.type = "boolean" THEN Value(JsBool(rule.value))
         ELSE IF rule.checkFunction = NoFunction THEN Value("false")
         ELSE LET y == CheckFunction(rule.checkFunction, authUser, resourceData)
              IN  IF y.kind = "return" /\ Nullish(y.value) THEN Value("false") ELSE y

Grants(r) == YieldOf(r).kind = "return" /\ Truthy(YieldOf(r).value)

\* the invocations of the predicates of the first n roles of the sequence
InvocationsUpTo(n) ==
    LET withPredicate == SelectSeq([k \in 1..n |-> authUser.roles[k]],
                                   LAMBDA r : InvokesPredicate(r))
    IN  [m \in 1..Len(withPredicate) |->
           Invocation(RuleAt(permissionsConfig, withPredicate[m],
                             resource, action).checkFunction,
                      authUser, resourceData)]

C23_ShortCircuit ==
    (MultiRoleCall /\ authUser.roles # <<>>) =>
        LET n == Len(outcome.inspected) IN
        /\ n >= 1
        /\ IsPrefix(outcome.inspected, authUser.roles)
        /\ \A k \in 1..(n - 1) : ~Grants(authUser.roles[k])
                                 /\ YieldOf(authUser.roles[k]).kind = "return"
        /\ Granted <=> Grants(authUser.roles[n])
        /\ n < Len(authUser.roles) =>
              (Grants(authUser.roles[n]) \/ YieldOf(authUser.roles[n]).kind = "throw")
        /\ outcome.invoked = InvocationsUpTo(n)
        /\ Len(outcome.invoked) <= n

\* the first role grants through its predicate; the predicate of the second
\* role, which would raise, is not invoked
C23_Witness ==
    /\ MultiRoleCall /\ Granted /\ Len(authUser.roles) = 2
    /\ outcome.inspected = <<authUser.roles[1]>>
    /\ Len(outcome.invoked) = 1
    /\ InvokesPredicate(authUser.roles[2])
    /\ YieldOf(authUser.roles[2]).kind = "throw"

(***************************************************************************)
(* C24  Order of the rows.                                                 *)
(***************************************************************************)
Min(S) == CHOOSE x \in S : \A y \in S : x <= y

\* the places <<role, resource>> and <<role, resource, action>> of the
\* table, by their positions in key order
ResourcePlaces ==
    UNION {{<<i, j>> : j \in 1..Len(permissionsConfig[i].value)}
           : i \in 1..Len(permissionsConfig)}

ActionPlaces ==
    UNION {{<<p[1], p[2], k>> :
              k \in 1..Len(permissionsConfig[p[1]].value[p[2]].value)}
           : p \in ResourcePlaces}

\* when the scan of the table (roles in key order, each role's resources in
\* key order, each resource's actions in key order) first meets the
\* resource, and the pair
ResourceFirst(res) ==
    Min({10 * p[1] + p[2] :
           p \in {q \in ResourcePlaces :
                     permissionsConfig[q[1]].value[q[2]].key = res}})

PairFirst(res, act) ==
    Min({100 * p[1] + 10 * p[2] + p[3] :
           p \in {q \in ActionPlaces :
                     /\ permissionsConfig[q[1]].value[q[2]].key = res
                     /\ permissionsConfig[q[1]].value[q[2]].value[q[3]].key = act}})

\* C24 as stated: the rows are in the order in which the scan first meets
\* their (resource, action) pairs.
C24_Original ==
    Reported =>
        \A a, b \in 1..Len(documentation.reportRows) :
            a < b => PairFirst(documentation.reportRows[a][1],
                               documentation.reportRows[a][2])
                     < PairFirst(documentation.reportRows[b][1],
                                 documentation.reportRows[b][2])

IndexRank(k) == CHOOSE i \in 1..Len(ArrayIndexKeys) : ArrayIndexKeys[i] = k

\* name a comes before name b: array indices first and ascending, other
\* names by the time they were first met
NameBefore(a, b, metA, metB) ==
    IF IsArrayIndex(a) /\ IsArrayIndex(b) THEN IndexRank(a) < IndexRank(b)
    ELSE IF IsArrayIndex(a) THEN TRUE
    ELSE IF IsArrayIndex(b) THEN FALSE
    ELSE metA < metB

RowBefore(x, y) ==
    IF x[1] # y[1]
    THEN NameBefore(x[1], y[1], ResourceFirst(x[1]), ResourceFirst(y[1]))
    ELSE NameBefore(x[2], y[2], PairFirst(x[1], x[2]), PairFirst(y[1], y[2]))

\* C24 as amended: the rows are grouped by resource; the resources are in
\* the order in which the scan first meets them and, under one resource,
\* the actions in the order in which the scan first meets them under that
\* resource, except that names that are array indices come first, in
\* ascending numeric order.
C24_RowOrder ==
    Reported =>
        \A a, b \in 1..Len(documentation.reportRows) :
            a < b => RowBefore(documentation.reportRows[a], documentation.reportRows[b])

\* the rows (todos, read), (todos, delete), (betaResource, read) of a table
\* whose scan meets (betaResource, read) before (todos, delete)
C24_Witness ==
    /\ Reported /\ Len(documentation.reportRows) = 3
    /\ documentation.reportRows[2][1] = "todos"
    /\ documentation.reportRows[2][2] = "delete"
    /\ documentation.reportRows[3][1] = "betaResource"
    /\ PairFirst("betaResource", "read") < PairFirst("todos", "delete")

(***************************************************************************)
(* C25  No escalation within a single role: in single-role mode the        *)
(* outcome of a call for a principal with role r is the outcome the same   *)
(* call has on every other table with the same entry at (r, resource,      *)
(* action), whatever the other roles are allowed and whatever r is allowed *)
(* elsewhere; an explicit false at (r, resource, action) is a deny.        *)
(***************************************************************************)
\* the two tables have the same entry, or both none, at (role, res, act)
SameEntry(t1, t2, role, res, act) ==
    /\ Specified(t1, role, res, act) <=> Specified(t2, role, res, act)
    /\ Specified(t1, role, res, act) =>
          RuleAt(t1, role, res, act) = RuleAt(t2, role, res, act)

SingleRoleCall ==
    Called /\ userRoleMode = "singleRole" /\ ~authUser.isNull /\ authUser.hasRole

\* the tables the table of the engine is compared with: every choice of
\* roles, each allowed everything, denied, allowed conditionally, or nothing
ComparedTables ==
    UNION {{[i \in 1..Len(rs) |-> Entry(rs[i], c[i])] :
              c \in [1..Len(rs) -> {AdminConfig, ModeratorConfig, UserConfig,
                                    NothingConfig, NoResourcesConfig}]}
           : rs \in TableRoles}

C25_NoEscalation ==
    SingleRoleCall =>
        /\ \A t \in ComparedTables :
              SameEntry(permissionsConfig, t, authUser.role, resource, action) =>
                 HasPermissionIn("singleRole", t, authUser, resource, action,
                                 resourceData) = outcome
        /\ (/\ Specified(permissionsConfig, authUser.role, resource, action)
            /\ RuleAt(permissionsConfig, authUser.role, resource, action) = Bool(FALSE))
              => Denied

\* the role of the principal is explicitly denied the slot that the other
\* role of the table is allowed
C25_Witness ==
    /\ SingleRoleCall /\ Denied /\ Len(permissionsConfig) = 2
    /\ Specified(permissionsConfig, authUser.role, resource, action)
    /\ RuleAt(permissionsConfig, authUser.role, resource, action) = Bool(FALSE)
    /\ \E i \in 1..2 :
          /\ permissionsConfig[i].key # authUser.role
          /\ Specified(permissionsConfig, permissionsConfig[i].key, resource, action)
          /\ RuleAt(permissionsConfig, permissionsConfig[i].key, resource, action)
                = Bool(TRUE)

(***************************************************************************)
(* C26  Agreement of the report with the decision engine.                  *)
(***************************************************************************)
\* principals that hold the role r
Holders(r) ==
    {SingleRoleAuthUser(r, "u1"), SingleRoleAuthUser(r, "u2"),
     BothShapesUser(r, <<"user">>, "u1")}

\* what a single-role engine over the table answers u at (res, act) with d
SingleRoleAnswer(u, res, act, d) ==
    HasPermissionIn("singleRole", permissionsConfig, u, res, act, d)

\* P(r, res, act, cell, u, d) for every role cell of every row and every
\* principal u holding the role of the cell and every resourceData d
ForAllSlots(P(_, _, _, _, _, _)) ==
    \A i \in 1..Len(documentation.reportRows), k \in 1..Len(permissionsConfig) :
        \A u \in Holders(permissionsConfig[k].key), d \in Datas :
            P(permissionsConfig[k].key, documentation.reportRows[i][1],
              documentation.reportRows[i][2], documentation.reportRows[i][3 + k], u, d)

\* the cell says what the engine answers, a conditional cell standing for
\* the very result of the predicate
AgreesExactly(r, res, act, cell, u, d) ==
    LET o == SingleRoleAnswer(u, res, act, d) IN
    /\ cell = "Allowed" => (o.kind = "return" /\ o.value = "true")
    /\ cell = "Denied" => (o.kind = "return" /\ o.value = "false")
    /\ (cell \notin {"Allowed", "Denied"}
        /\ RuleAt(permissionsConfig, r, res, act).checkFunction # NoFunction) =>
          LET y == CheckFunction(RuleAt(permissionsConfig, r, res, act).checkFunction,
                                 u, d)
          IN  o.kind = y.kind /\ o.value = y.value

\* C26 as stated: 'Allowed' means true and 'Denied' means false for every
\* principal with that role and every resourceData, and for a conditional
\* cell hasPermission returns exactly the result of the rule's predicate.
C26_Original == Reported => ForAllSlots(AgreesExactly)

\* the same for roles other than the empty string, a conditional cell
\* standing for the result of the predicate with false in place of null
\* and undefined and in place of a missing predicate
Agrees(r, res, act, cell, u, d) ==
    r # "" =>
        LET o == SingleRoleAnswer(u, res, act, d) IN
        /\ cell = "Allowed" => (o.kind = "return" /\ o.value = "true")
        /\ cell = "Denied" => (o.kind = "return" /\ o.value = "false")
        /\ cell \notin {"Allowed", "Denied"} =>
              LET rule == RuleAt(permissionsConfig, r, res, act)
                  y == CheckFunction(rule.checkFunction, u, d)
              IN  IF rule.checkFunction = NoFunction
                  THEN o.kind = "return" /\ o.value = "false"
                  ELSE IF y.kind = "return" /\ Nullish(y.value)
                  THEN o.kind = "return" /\ o.value = "false"
                  ELSE o.kind = y.kind /\ o.value = y.value

\* C26 as amended: for every role of the table other than the empty string
\* and every discovered pair, 'Allowed' means true and 'Denied' means false
\* for every principal with that role and every resourceData; for a
\* conditional cell hasPermission returns what the rule's predicate returns,
\* false if that is null or undefined or the rule has no predicate, and
\* ends with the predicate's failure if it raises.
C26_ReportAgrees == Reported => ForAllSlots(Agrees)

\* a row whose cells are a denial for admin and the author-only condition
\* for user
C26_Witness ==
    /\ Reported /\ Keys(permissionsConfig) = <<"admin", "user">>
    /\ \E i \in 1..Len(documentation.reportRows) :
          /\ documentation.reportRows[i][4] = "Denied"
          /\ documentation.reportRows[i][5] = "Conditional: " \o AuthorOnly
          /\ SingleRoleAnswer(SingleRoleAuthUser("user", "u1"),
                              documentation.reportRows[i][1],
                              documentation.reportRows[i][2], ToDo("u1")).value = "true"
          /\ SingleRoleAnswer(SingleRoleAuthUser("user", "u2"),
                              documentation.reportRows[i][1],
                              documentation.reportRows[i][2], ToDo("u1")).value = "false"

(***************************************************************************)
(* C27  Grants are monotone in the held roles.                             *)
(***************************************************************************)
\* the roles of a sequence
RolesOf(t) == {t[i] : i \in 1..Len(t)}

\* for a set of roles, the role sequences that contain every one of them
Containing ==
    [R \in SUBSET RoleNames |-> {t \in RoleSeqs : R \subseteq RolesOf(t)}]

\* for a set of roles, the role sequences made of exactly these roles
Repeating ==
    [R \in SUBSET RoleNames |-> {t \in RoleSeqs : R = RolesOf(t)}]

\* the rules at the slot of the roles of t, when they have a predicate, do
\* not raise and answer the principal the same with t as with its own roles
TameUnder(t) ==
    \A r \in RolesOf(t) :
        (/\ Specified(permissionsConfig, r, resource, action)
         /\ RuleAt(permissionsConfig, r, resource, action).type = "object"
         /\ RuleAt(permissionsConfig, r, resource, action).checkFunction # NoFunction) =>
            LET f == RuleAt(permissionsConfig, r, resource, action).checkFunction
            IN  /\ CheckFunction(f, authUser, resourceData).kind = "return"
                /\ CheckFunction(f, WithRoles(t), resourceData) =
                   CheckFunction(f, authUser, resourceData)

\* C27: in multi-role mode, for predicates that do not raise and do not
\* depend on the principal's role sequence, a grant for the role sequence S
\* is a grant for every role sequence that contains every role of S, and a
\* sequence with the same roles as S, some of them repeated, yields the
\* result of S.
C27_Monotone ==
    MultiRoleCall =>
        /\ Granted =>
              \A t \in Containing[RolesOf(authUser.roles)] :
                  LET o == OutcomeWith(t)
                  IN  (o.kind = "return" /\ o.value = "true") \/ ~TameUnder(t)
        /\ outcome.kind = "return" =>
              \A t \in Repeating[RolesOf(authUser.roles)] :
                  LET o == OutcomeWith(t)
                  IN  (o.kind = "return" /\ o.value = outcome.value) \/ ~TameUnder(t)

\* admin alone is granted, and stays granted next to a role with an explicit
\* false at the slot and next to a role unknown to the table
C27_Witness ==
    /\ MultiRoleCall /\ Granted /\ authUser.roles = <<"admin">>
    /\ HasKey(permissionsConfig, "user")
    /\ Specified(permissionsConfig, "user", resource, action)
    /\ RuleAt(permissionsConfig, "user", resource, action).type = "boolean"
    /\ ~RuleAt(permissionsConfig, "user", resource, action).value
    /\ ~HasKey(permissionsConfig, "")
    /\ OutcomeWith(<<"user", "admin">>).value = "true"
    /\ OutcomeWith(<<"", "admin">>).value = "true"
    /\ OutcomeWith(<<"user">>).value = "false"

(***************************************************************************)
(* C28  Within one report the nested map and the rows carry the same       *)
(* information: the nested map has an entry for exactly the discovered     *)
(* pairs, each entry has exactly one status per role of the table, every   *)
(* role cell of a row is the status of the nested map at the row's         *)
(* resource and action and the role of the column, and every status is     *)
(* 'Allowed', 'Denied' or 'Conditional: ' followed by a text.              *)
(***************************************************************************)
\* the nested map has an entry at (res, act)
NestedEntry(res, act) ==
    \E i \in 1..Len(documentation.report) :
        /\ documentation.report[i].key = res
        /\ \E j \in 1..Len(documentation.report[i].value) :
              documentation.report[i].value[j].key = act

\* no key occurs twice in the object
DistinctKeys(obj) ==
    \A i, j \in 1..Len(obj) : obj[i].key = obj[j].key => i = j

\* the texts that follow 'Conditional: ' in the cells of this table: the
\* descriptions of its conditional rules, a missing one rendered
TextsOf(table) ==
    {"undefined"} \cup
    UNION {UNION {{table[i].value[j].value[k].value.description :
                      k \in 1..Len(table[i].value[j].value)} :
                  j \in 1..Len(table[i].value)} :
           i \in 1..Len(table)}

StatusTexts ==
    {"Allowed", "Denied"} \cup {"Conditional: " \o d : d \in TextsOf(permissionsConfig)}

C28_MapAndRows ==
    Reported =>
        /\ DistinctKeys(documentation.report)
        /\ \A i \in 1..Len(documentation.report) :
              /\ documentation.report[i].key \in ResourceNames
              /\ DistinctKeys(documentation.report[i].value)
              /\ \A j \in 1..Len(documentation.report[i].value) :
                    LET cells == documentation.report[i].value[j].value IN
                    /\ documentation.report[i].value[j].key \in ActionNames
                    /\ DistinctKeys(cells)
                    /\ Len(cells) = Len(permissionsConfig)
                    /\ {cells[k].key : k \in 1..Len(cells)} =
                       {permissionsConfig[k].key : k \in 1..Len(permissionsConfig)}
                    /\ \A k \in 1..Len(cells) : cells[k].value \in StatusTexts
        /\ \A res \in ResourceNames, act \in ActionNames :
              NestedEntry(res, act) <=> Configured(res, act)
        /\ \A i \in 1..Len(documentation.reportRows) :
              LET row == documentation.reportRows[i] IN
              /\ NestedEntry(row[1], row[2])
              /\ Len(row) = 3 + Len(permissionsConfig)
              /\ \A k \in 1..Len(permissionsConfig) :
                    /\ NestedCell(row[1], row[2], permissionsConfig[k].key, row[3 + k])
                    /\ row[3 + k] \in StatusTexts

\* a report over two roles with the three kinds of status in its cells and
\* a pair that the first role does not configure
C28_Witness ==
    /\ Reported /\ Len(permissionsConfig) = 2
    /\ \E i, j \in 1..Len(documentation.reportRows) :
          /\ documentation.reportRows[i][4] = "Denied"
          /\ documentation.reportRows[i][5] = "Conditional: " \o AuthorOnly
          /\ ~Specified(permissionsConfig, permissionsConfig[1].key,
                        documentation.reportRows[i][1], documentation.reportRows[i][2])
          /\ documentation.reportRows[j][4] = "Allowed"
          /\ NestedCell(documentation.reportRows[j][1], documentation.reportRows[j][2],
                        permissionsConfig[1].key, "Allowed")

(***************************************************************************)
(* C29  A description table that was supplied but has no entry for some    *)
(* discovered (resource, action) pair, for the resource or for the action  *)
(* under it, makes generatePermissionDocs raise: no report, whole or       *)
(* partial, is returned, and no returned row has a description that is     *)
(* blank, undefined or not the one of the description table.               *)
(***************************************************************************)
\* the description table has an entry for the resource
ResourceDescribed(res) ==
    \E i \in 1..Len(actionDocsConfig.actionDescriptions) :
        actionDocsConfig.actionDescriptions[i].key = res

C29_PartialDescriptions ==
    /\ (Generated /\ actionDocsConfig.supplied /\ ~AllDescribed) =>
          /\ documentation.kind = "throw"
          /\ documentation.report = <<>>
          /\ documentation.reportHeader = <<>>
          /\ documentation.reportRows = <<>>
    /\ Reported =>
          \A i \in 1..Len(documentation.reportRows) :
              /\ DescribedAs(documentation.reportRows[i][1], documentation.reportRows[i][2],
                             documentation.reportRows[i][3])
              /\ documentation.reportRows[i][3] \notin {"", "undefined", NoDescription}

\* the table describes todos and its reading; the reading of todos comes
\* first among the pairs and the deletion of todos is not described
C29_Witness ==
    /\ Generated /\ actionDocsConfig = READS_DOC_CONFIG
    /\ documentation.kind = "throw"
    /\ Keys(permissionsConfig[1].value) = <<"todos">>
    /\ Keys(permissionsConfig[1].value[1].value) = <<"read", "delete">>
    /\ ResourceDescribed("todos")
    /\ HasDescription("todos", "read") /\ ~HasDescription("todos", "delete")
    /\ ~AllDescribed

(***************************************************************************)
(* C30  generatePermissionDocs reads the description table only while      *)
(* emitting a row: for a permission table in which no role configures a    *)
(* (resource, action) pair it returns a report with no rows and a header   *)
(* of 3 + number-of-roles columns, the same report whether or not a        *)
(* description table was supplied at construction.                         *)
(***************************************************************************)
\* no role of the table configures a pair
NoPairConfigured ==
    \A i \in 1..Len(permissionsConfig) :
        \A j \in 1..Len(permissionsConfig[i].value) :
            permissionsConfig[i].value[j].value = <<>>

====
